---------------------------- MODULE Spec2Model ----------------------------
(***************************************************************************)
(* Structured NOD decoder of scripts/nod_to_gltf.py: parse_nod reads the   *)
(* fixed-layout container from a byte buffer, extract_mesh flattens the    *)
(* vertex groups and triangulates each mesh group's LOD0 strip and list    *)
(* runs, convert_nod_file counts the outcome of one file and main runs it  *)
(* over a batch.  Byte buffers are sequences of 0..255 (offset k of the    *)
(* buffer is element k+1); a float32 is kept as its four bytes.  The       *)
(* enumerated buffers hold 32-bit fields below 2^31.                       *)
(***************************************************************************)
EXTENDS Integers, Sequences, FiniteSets, TLC

(***************************************************************************)
(* Bounds of the model.                                                    *)
(***************************************************************************)
\* number of files of one batch run of main
MaxFiles == 2
\* longest enumerated index run
MaxRun == 4
\* enumerated raw indices are 0..MaxIndexValue; the enumerated containers
\* hold MaxIndexValue vertices, so the largest value is out of range
MaxIndexValue == 3

(***************************************************************************)
(* Layout constants of the container.                                      *)
(***************************************************************************)
HEADER_SIZE == 92
NOD_VERSION == 10
SHADER_NAME_SIZE == 32
BONE_SIZE == 64
MESH_GROUP_SIZE == 56
HEADER_SLOTS == 4
LOD_SLOTS == 4

\* VERTEX_STRIDES: vertex type -> record size in bytes
VERTEX_STRIDES == (0 :> 32) @@ (1 :> 36) @@ (2 :> 48) @@ (3 :> 32)

\* Python's None for the strip window registers v1, v2, v3
NoIndex == -1

(***************************************************************************)
(* Binary read helpers (little-endian).                                    *)
(***************************************************************************)
read_u8(data, off) == data[off + 1]

read_u16(data, off) == data[off + 1] + 256 * data[off + 2]

read_u32(data, off) ==
    data[off + 1] + 256 * data[off + 2] + 65536 * data[off + 3]
        + 16777216 * data[off + 4]

\* struct.unpack_from('<f'): the value is kept as its four bytes, lowest first
read_f32(data, off) ==
    << data[off + 1], data[off + 2], data[off + 3], data[off + 4] >>

\* struct.unpack_from('<3f')
read_3f(data, off) ==
    << read_f32(data, off), read_f32(data, off + 4), read_f32(data, off + 8) >>

\* math.isfinite of a float32: the eight exponent bits are not all ones
isfinite(f) == (f[4] % 128) * 2 + (f[3] \div 128) # 255

\* the float32 0.0
ZeroFloat == << 0, 0, 0, 0 >>

\* data[a:b] of Python: clipped to the buffer, never raises
Slice(data, a, b) ==
    LET hi == IF b < Len(data) THEN b ELSE Len(data)
    IN  IF a >= hi THEN << >> ELSE SubSeq(data, a + 1, hi)

RECURSIVE UpToNul(_)
\* raw.split(b'\x00')[0]
UpToNul(raw) ==
    IF raw = << >> \/ Head(raw) = 0 THEN << >>
    ELSE << Head(raw) >> \o UpToNul(Tail(raw))

IsAscii(b) == b < 128

\* .decode('ascii', errors='ignore'): bytes >= 0x80 are dropped
ShaderName(raw) == SelectSeq(UpToNul(raw), IsAscii)


(***************************************************************************)
(* parse_nod                                                               *)
(***************************************************************************)
\* return None
NoneResult == [tag |-> "None"]

\* vtx_groups[gi] with gi beyond the header's slots: IndexError, uncaught
IndexErrorResult == [tag |-> "IndexError"]

\* one vertex record at off: pos(3f) + normal(3f) + uv(2f)
ReadVertex(data, off) ==
    [pos    |-> read_3f(data, off),
     normal |-> read_3f(data, off + 12),
     uv     |-> << read_f32(data, off + 24), read_f32(data, off + 28) >>]

RECURSIVE ReadGroupVerts(_, _, _, _, _)
\* for vi in range(vtx_count): stop at the first record the buffer cannot hold
ReadGroupVerts(data, off, stride, left, acc) ==
    IF left = 0 \/ off + stride > Len(data)
    THEN [verts |-> acc, off |-> off]
    ELSE ReadGroupVerts(data, off + stride, stride, left - 1,
                        Append(acc, ReadVertex(data, off)))

RECURSIVE ReadVertexGroups(_, _, _, _, _, _)
\* for gi in range(vert_group_count)
ReadVertexGroups(data, off, vtx_groups, vert_group_count, gi, acc) ==
    IF gi > vert_group_count
    THEN [tag |-> "ok", all_vertices |-> acc, off |-> off]
    ELSE IF gi > Len(vtx_groups) THEN IndexErrorResult
    ELSE IF vtx_groups[gi][1] \notin DOMAIN VERTEX_STRIDES THEN NoneResult
    ELSE LET g == ReadGroupVerts(data, off, VERTEX_STRIDES[vtx_groups[gi][1]],
                                 vtx_groups[gi][2], << >>)
         IN  ReadVertexGroups(data, g.off, vtx_groups, vert_group_count,
                              gi + 1, Append(acc, g.verts))

RECURSIVE ReadIndices(_, _, _, _)
\* for i in range(index_count): stop when two bytes are not left
ReadIndices(data, off, left, acc) ==
    IF left = 0 \/ off + 2 > Len(data)
    THEN [indices |-> acc, off |-> off]
    ELSE ReadIndices(data, off + 2, left - 1, Append(acc, read_u16(data, off)))

RECURSIVE ReadLods(_, _, _, _, _)
\* for li in range(4): the LOD's ranges follow the running idx_offset
ReadLods(data, off, idx_offset, li, acc) ==
    IF li > LOD_SLOTS THEN [lods |-> acc, idx_offset |-> idx_offset]
    ELSE LET strip_count == read_u16(data, off)
             list_count  == read_u16(data, off + 2)
             vtx_count   == read_u16(data, off + 4)
         IN  ReadLods(data, off + 6, idx_offset + strip_count + list_count,
                      li + 1,
                      Append(acc, [strip_start |-> idx_offset,
                                   strip_count |-> strip_count,
                                   list_start  |-> idx_offset + strip_count,
                                   list_count  |-> list_count,
                                   vtx_count   |-> vtx_count]))

RECURSIVE ReadMeshGroupsRestart(_, _, _, _, _)
\* ReadMeshGroups with every descriptor's ranges starting at index 0 again
ReadMeshGroupsRestart(data, off, left, accumulated_index_offset, acc) ==
    IF left = 0 \/ off + MESH_GROUP_SIZE > Len(data) THEN acc
    ELSE LET l == ReadLods(data, off + 4, 0, 1, << >>)
         IN  ReadMeshGroupsRestart(data, off + MESH_GROUP_SIZE, left - 1,
                 l.idx_offset,
                 Append(acc, [material_id  |-> read_u32(data, off),
                              lods         |-> l.lods,
                              vertex_count |-> read_u16(data, off + 28),
                              group_flags  |-> read_u8(data, off + 30),
                              vtx_group    |-> read_u8(data, off + 54)]))

RECURSIVE ReadMeshGroups(_, _, _, _, _)
\* for mi in range(mesh_group_count): stop at the first descriptor the buffer
\* cannot hold
ReadMeshGroups(data, off, left, accumulated_index_offset, acc) ==
    IF left = 0 \/ off + MESH_GROUP_SIZE > Len(data) THEN acc
    ELSE LET l == ReadLods(data, off + 4, accumulated_index_offset, 1, << >>)
         IN  ReadMeshGroups(data, off + MESH_GROUP_SIZE, left - 1, l.idx_offset,
                 Append(acc, [material_id  |-> read_u32(data, off),
                              lods         |-> l.lods,
                              vertex_count |-> read_u16(data, off + 28),
                              group_flags  |-> read_u8(data, off + 30),
                              vtx_group    |-> read_u8(data, off + 54)]))

\* the header's vertex-group slots at 0x24, 8 bytes each
HeaderSlots(data) ==
    [i \in 1..HEADER_SLOTS |->
        << read_u8(data, 36 + 8 * (i - 1)), read_u32(data, 36 + 8 * (i - 1) + 4) >>]

\* the shader-name table at 0x5C
ShaderNames(data, shader_count) ==
    [i \in 1..shader_count |->
        ShaderName(Slice(data, HEADER_SIZE + SHADER_NAME_SIZE * (i - 1),
                         HEADER_SIZE + SHADER_NAME_SIZE * i))]

\* VersionOk comparing the lowest byte of the field only
VersionLowByteOk(version) == version % 256 = NOD_VERSION

\* version field accepted
VersionOk(version) == version = NOD_VERSION

\* buffer holds the fixed header
HeaderPresent(data) == Len(data) >= HEADER_SIZE

parse_nod(data) ==
    IF ~HeaderPresent(data) THEN NoneResult
    ELSE IF ~VersionOk(read_u32(data, 0)) THEN NoneResult
    ELSE
      LET shader_count     == read_u8(data, 4)
          bone_count       == read_u8(data, 5)
          vert_group_count == read_u8(data, 6)
          mesh_group_count == read_u8(data, 7)
          vtx_groups       == HeaderSlots(data)
          index_count      == read_u32(data, 68)
          vg == ReadVertexGroups(data,
                    HEADER_SIZE + SHADER_NAME_SIZE * shader_count
                        + BONE_SIZE * bone_count,
                    vtx_groups, vert_group_count, 1, << >>)
      IN  IF vg.tag # "ok" THEN vg
          ELSE
            LET ix == ReadIndices(data, vg.off, index_count, << >>)
            IN  [tag              |-> "nod",
                 version          |-> read_u32(data, 0),
                 shader_count     |-> shader_count,
                 bone_count       |-> bone_count,
                 vert_group_count |-> vert_group_count,
                 mesh_group_count |-> mesh_group_count,
                 flags            |-> read_u32(data, 8),
                 bbox_min         |-> read_3f(data, 12),
                 bbox_max         |-> read_3f(data, 24),
                 vtx_groups       |-> vtx_groups,
                 index_count      |-> index_count,
                 shaders          |-> ShaderNames(data, shader_count),
                 all_vertices     |-> vg.all_vertices,
                 indices          |-> ix.indices,
                 mesh_groups      |-> ReadMeshGroups(data, ix.off,
                                         mesh_group_count, 0, << >>)]


(***************************************************************************)
(* Input buffers.  A container is written from a layout record: the header *)
(* fields as declared, then the bytes actually present (shader names,      *)
(* bones, vertex blocks, indices, descriptors), and is cut to f.size bytes *)
(* when f.size is smaller than what was written.                           *)
(***************************************************************************)
RECURSIVE LE(_, _)
\* n as k little-endian bytes
LE(n, k) == IF k = 0 THEN << >> ELSE << n % 256 >> \o LE(n \div 256, k - 1)

Zeros(k) == [i \in 1..k |-> 0]

RECURSIVE Flatten(_)
Flatten(ss) == IF ss = << >> THEN << >> ELSE Head(ss) \o Flatten(Tail(ss))

\* the bytes of the float32 0.0, 1.0, 2.0, 3.0, 4.0, NaN, +inf, -1.0
FloatPatterns ==
    << << 0, 0, 0, 0 >>, << 0, 0, 128, 63 >>, << 0, 0, 0, 64 >>,
       << 0, 0, 64, 64 >>, << 0, 0, 128, 64 >>, << 0, 0, 192, 127 >>,
       << 0, 0, 128, 127 >>, << 0, 0, 128, 191 >> >>

FloatOf(k) == FloatPatterns[(k % Len(FloatPatterns)) + 1]

\* the k-th vertex record written (k from 0), stride bytes long
VertexBytes(k, stride) ==
    FloatOf(k) \o FloatOf(k + 1) \o FloatOf(k + 2)
        \o FloatOf(0) \o FloatOf(1) \o FloatOf(k + 5)
        \o FloatOf(k) \o FloatOf(1) \o Zeros(stride - 32)

\* a block of n records of one stride, the first being record number first
VertexBlock(first, n, stride) ==
    Flatten([j \in 1..n |-> VertexBytes(first + j - 1, stride)])

RECURSIVE VertexBlocks(_, _)
\* blocks: sequence of <<stride, n>>
VertexBlocks(blocks, first) ==
    IF blocks = << >> THEN << >>
    ELSE VertexBlock(first, Head(blocks)[2], Head(blocks)[1])
            \o VertexBlocks(Tail(blocks), first + Head(blocks)[2])

\* one LOD entry of a descriptor: <<strip_count, list_count, vtx_count>>
LodBytes(l) == LE(l[1], 2) \o LE(l[2], 2) \o LE(l[3], 2)

\* one 0x38-byte mesh-group descriptor
DescriptorBytes(g) ==
    LE(g.material_id, 4) \o Flatten([i \in 1..LOD_SLOTS |-> LodBytes(g.lods[i])])
        \o LE(g.vertex_count, 2) \o Zeros(23) \o << 0, g.vtx_group, 0 >>

SlotBytes(s) == << s[1], 0, 0, 0 >> \o LE(s[2], 4)

HeaderBytes(f) ==
    LE(f.version, 4)
        \o << f.shader_count, f.bone_count, f.vert_group_count, f.mesh_group_count >>
        \o Zeros(4) \o Zeros(24)
        \o Flatten([i \in 1..HEADER_SLOTS |-> SlotBytes(f.slots[i])])
        \o LE(f.index_count, 4) \o Zeros(16) \o << 1, 0, 0, 0 >>

\* shader name i: "m", i, NUL padded
NameBytes(i) == << 109, 48 + i >> \o Zeros(SHADER_NAME_SIZE - 2)

AllBytes(f) ==
    HeaderBytes(f)
        \o Flatten([i \in 1..f.shader_count |-> NameBytes(i)])
        \o Zeros(BONE_SIZE * f.bone_count)
        \o VertexBlocks(f.blocks, 0)
        \o Flatten([i \in 1..Len(f.idx) |-> LE(f.idx[i], 2)])
        \o Flatten([i \in 1..Len(f.groups) |-> DescriptorBytes(f.groups[i])])

FileBytes(f) ==
    LET all == AllBytes(f)
    IN  IF f.size < Len(all) THEN SubSeq(all, 1, f.size) ELSE all


(***************************************************************************)
(* Layouts of the enumerated containers.                                   *)
(***************************************************************************)
NoLod == << 0, 0, 0 >>

\* a descriptor whose LOD0 has the given runs; lod1 is the second LOD's entry
Group(material_id, strip_count, list_count, vertex_count, lod1) ==
    [material_id  |-> material_id,
     lods         |-> << << strip_count, list_count, vertex_count >>, lod1,
                         NoLod, NoLod >>,
     vertex_count |-> vertex_count,
     vtx_group    |-> 0]

\* a complete container: vertex groups as <<type, count>>, all bytes present
Layout(vgroups, idx, groups) ==
    [version          |-> NOD_VERSION,
     shader_count     |-> 1,
     bone_count       |-> 0,
     vert_group_count |-> Len(vgroups),
     mesh_group_count |-> Len(groups),
     slots            |-> [i \in 1..HEADER_SLOTS |->
                              IF i <= Len(vgroups) THEN vgroups[i] ELSE << 0, 0 >>],
     index_count      |-> Len(idx),
     blocks           |-> [i \in 1..Len(vgroups) |->
                              << VERTEX_STRIDES[vgroups[i][1]], vgroups[i][2] >>],
     idx              |-> idx,
     groups           |-> groups,
     size             |-> 1000000]

\* index runs of every length up to MaxRun over 0..MaxIndexValue
Runs == UNION {[1..l -> 0..MaxIndexValue] : l \in 0..MaxRun}

\* the ways a run of length l is split into a strip of k and a list of l - k
Splits(l) == {0, l} \cup (IF l >= 3 THEN {l - 3} ELSE {})

\* one vertex group of MaxIndexValue vertices, one mesh group, every run
RunLayouts ==
    UNION {{Layout(<< << 0, MaxIndexValue >> >>, r,
                   << Group(0, k, Len(r) - k, MaxIndexValue, NoLod) >>) :
               k \in Splits(Len(r))} : r \in Runs}

\* the containers of the documented examples: a 4-index strip over 4
\* vertices; the 9-index run over 5 and 6 vertices, as a strip and as a list
ExampleLayouts ==
    {Layout(<< << 0, 4 >> >>, << 0, 1, 2, 3 >>, << Group(0, 4, 0, 4, NoLod) >>)}
    \cup {Layout(<< << 0, nv >> >>, << 0, 1, 2, 1, 3, 2, 2, 3, 4 >>,
                 << Group(0, k, 9 - k, nv, NoLod) >>) :
             nv \in {5, 6}, k \in {0, 9}}

\* runs of the two-group containers
PairRuns ==
    {<< 0, 1, 2 >>, << 0, 1, 2, 1 >>, << 2, 1, 0 >>, << 0, 0, 1 >>, << 0, 1, 3 >>,
     << 0, 1, 6, 2, 1, 0 >>, << 1, 2 >>}

\* two vertex groups (types 1 and 2, 3 vertices each) and two mesh groups whose
\* runs follow each other in the index buffer; the first group's second LOD
\* takes lod1 indices of its own
PairLayouts ==
    {Layout(<< << 1, 3 >>, << 2, 3 >> >>, r1 \o Zeros(lod1) \o r2,
            << Group(m[1], IF s[1] THEN Len(r1) ELSE 0,
                     IF s[1] THEN 0 ELSE Len(r1), 3, << lod1, 0, 0 >>),
               Group(m[2], IF s[2] THEN Len(r2) ELSE 0,
                     IF s[2] THEN 0 ELSE Len(r2), 3, NoLod) >>) :
        r1 \in PairRuns, r2 \in PairRuns, s \in BOOLEAN \X BOOLEAN,
        m \in {<< 0, 0 >>, << 0, 1 >>}, lod1 \in {0, 2}}

\* vertex types written into the header's slots: two known, one unknown
SlotTypes == {0, 2, 7}

\* every vertex-group count up to one more than the header's slots, every
\* assignment of SlotTypes to the slots, one record per slot of a known type
SlotLayouts ==
    {[Layout(<< >>, << 0, 1, 2 >>, << Group(0, 3, 0, 3, NoLod) >>) EXCEPT
         !.vert_group_count = c,
         !.slots  = [i \in 1..HEADER_SLOTS |-> << t[i], 1 >>],
         !.blocks = [i \in 1..(IF c < HEADER_SLOTS THEN c ELSE HEADER_SLOTS) |->
                        IF t[i] \in DOMAIN VERTEX_STRIDES
                        THEN << VERTEX_STRIDES[t[i]], 1 >> ELSE << 32, 0 >>]] :
        c \in 0..(HEADER_SLOTS + 1), t \in [1..HEADER_SLOTS -> SlotTypes]}

\* other versions, and group counts that fill a byte
HeaderLayouts ==
    {[Layout(<< << 0, 3 >> >>, << 0, 1, 2 >>, << Group(0, 3, 0, 3, NoLod) >>)
         EXCEPT !.version = v, !.vert_group_count = c] :
        v \in {NOD_VERSION, 9, 0, 266, 167772160}, c \in {1, 255}}

\* the containers cut at every length
CutBases ==
    {Layout(<< << 0, 4 >> >>, << 0, 1, 2, 3 >>, << Group(0, 4, 0, 4, NoLod) >>),
     Layout(<< << 2, 2 >>, << 0, 2 >> >>, << 0, 1, 2, 1, 2, 3 >>,
            << Group(0, 3, 0, 2, NoLod), Group(1, 0, 3, 2, NoLod) >>)}

CutLayouts ==
    UNION {{[f EXCEPT !.size = n] : n \in 0..Len(AllBytes(f))} : f \in CutBases}

\* vertex_count values declared by the first descriptor of OffsetLayouts
DeclaredCounts == {0, 2, 3, 4}

\* two vertex groups of 3 vertices and two mesh groups: the first declares a
\* vertex_count of its own choosing and has a strip that gives one triangle
\* or none, the second has the list 0, 1, 2
OffsetLayouts ==
    {Layout(<< << 0, 3 >>, << 2, 3 >> >>, r1 \o << 0, 1, 2 >>,
            << Group(0, Len(r1), 0, c, NoLod), Group(1, 0, 3, 3, NoLod) >>) :
        r1 \in {<< 0, 1, 2 >>, << 0, 0, 1 >>}, c \in DeclaredCounts}

\* two mesh groups that both have a strip and a list, under every pairing of
\* two material ids
MixedLayouts ==
    {Layout(<< << 0, 3 >>, << 2, 3 >> >>,
            << 0, 1, 2, 2, 1, 0, 0, 2, 1, 1, 0, 2 >>,
            << Group(m[1], 3, 3, 3, NoLod), Group(m[2], 3, 3, 3, NoLod) >>) :
        m \in {<< 0, 0 >>, << 0, 1 >>, << 1, 0 >>}}

Layouts ==
    RunLayouts \cup ExampleLayouts \cup PairLayouts \cup SlotLayouts
        \cup HeaderLayouts \cup CutLayouts \cup OffsetLayouts
        \cup MixedLayouts

\* the buffers a file of the source directory may hold
Inputs == {FileBytes(f) : f \in Layouts}

(***************************************************************************)
(* Heuristic decoder of scripts/build_model_stubs.py.  A float32 stays its *)
(* four bytes; what the scanners ask of a float is answered from the bits: *)
(* the order of two floats is the order of their signed magnitudes, and    *)
(* the arithmetic of in_expanded_bbox is done in fixed point, in units of  *)
(* 1/64, which is exact for coordinates that are multiples of 1/64 and     *)
(* for coordinates below 1/64 in magnitude tested against a box whose      *)
(* expanded faces are not at 0; the enumerated buffers hold only such      *)
(* coordinates, none of them on an expanded face.                          *)
(***************************************************************************)
MIN_SCAN_SIZE == 256
MIN_AVAILABLE == 12
EVAL_CAP == 256
EVAL_FLOOR == 24
MIN_VERTICES == 8
HINT_MIN == 4
HINT_MAX == 250000
SWEEP_START == 64
SWEEP_END == 1024
SWEEP_STEP == 16
BBOX_OFFSET == 12
BBOX_END == 36
HINT_OFFSET == 40
HINT_END == 44
\* thresholds on the score, in units of 1/100000: 0.80 and 0.88
THRESHOLD_HINT == 80000
THRESHOLD_NO_HINT == 88000
\* None for count_hint: the code only tests count_hint for truth
NoHint == 0

\* offsets = [0x80, 0x90, 0xA0, 0xB0, 0xC0, 0xE0, 0x100, 0x120]
COMMON_OFFSETS == << 128, 144, 160, 176, 192, 224, 256, 288 >>

\* strides = [12, 16, 20, 24, 28, 32, 36, 40, 48, 56, 64]
STRIDES == << 12, 16, 20, 24, 28, 32, 36, 40, 48, 56, 64 >>

Min(a, b) == IF a <= b THEN a ELSE b

Max(a, b) == IF a >= b THEN a ELSE b

\* range(a, b, step) as a sequence
Range(a, b, step) ==
    IF b <= a THEN << >>
    ELSE [k \in 1..(((b - a - 1) \div step) + 1) |-> a + (k - 1) * step]

\* [o for o in offsets if not (o in seen or seen.add(o))]: the first
\* occurrence of each value, in order
Unique(s) ==
    LET first == SelectSeq([k \in 1..Len(s) |-> k],
                           LAMBDA k : \A j \in 1..(k - 1) : s[j] # s[k])
    IN  [m \in 1..Len(first) |-> s[first[m]]]

\* the 31 bits of a float32 below the sign
MagBits(f) == f[1] + 256 * f[2] + 65536 * f[3] + 16777216 * (f[4] % 128)

Negative(f) == f[4] >= 128

\* a key whose integer order is the order of the finite floats
Key(f) == IF Negative(f) THEN 0 - MagBits(f) ELSE MagBits(f)

\* abs(v) > 1_000_000.0; 1e6 is the float32 0x49742400
AbsTooLarge(f) == MagBits(f) > 1232348160

ExpField(f) == (f[4] % 128) * 2 + (f[3] \div 128)

\* the 24-bit significand, with the hidden bit of a normal float
Significand(f) ==
    (f[1] + 256 * f[2] + 65536 * (f[3] % 128))
        + (IF ExpField(f) = 0 THEN 0 ELSE 8388608)

\* floor(abs(v) * 2^k) for a finite float of magnitude at most 1e6 * 2^(6-k)
Scaled(f, k) ==
    LET e == IF ExpField(f) = 0 THEN 1 ELSE ExpField(f)
        shift == e - 150 + k
    IN  IF shift >= 0 THEN Significand(f) * (2 ^ shift)
        ELSE IF shift <= -24 THEN 0
        ELSE Significand(f) \div (2 ^ (0 - shift))

\* the value in units of 1/64, rounded toward zero
V64(f) == IF Negative(f) THEN 0 - Scaled(f, 6) ELSE Scaled(f, 6)

\* abs(x) + abs(y) + abs(z) > 1e-6: one magnitude alone is above 1e-6 (the
\* float32 0x358637BE and up), or the three, each in units of 2^-47, add
\* up to more than 1e-6 = 140737488.36 units
NonZero(p) ==
    \/ \E j \in 1..3 : MagBits(p[j]) >= 897988542
    \/ Scaled(p[1], 47) + Scaled(p[2], 47) + Scaled(p[3], 47) > 140737488

\* lines 185-188: the record counts as finite
FiniteInRange(p) ==
    /\ \A j \in 1..3 : isfinite(p[j])
    /\ \A j \in 1..3 : ~AbsTooLarge(p[j])

\* parse_bbox_guess; min, max and span in units of 1/64
parse_bbox_guess(data) ==
    IF Len(data) < BBOX_END THEN NoneResult
    ELSE LET vals == [j \in 1..6 |-> read_f32(data, BBOX_OFFSET + 4 * (j - 1))]
         IN  IF \E j \in 1..6 : ~isfinite(vals[j]) THEN NoneResult
             ELSE IF \E j \in 1..6 : AbsTooLarge(vals[j]) THEN NoneResult
             ELSE IF \E j \in 1..3 : Key(vals[j]) > Key(vals[j + 3])
                  THEN NoneResult
             ELSE IF \A j \in 1..3 : Key(vals[j]) = Key(vals[j + 3])
                  THEN NoneResult
             ELSE [tag |-> "bbox",
                   min |-> [j \in 1..3 |-> V64(vals[j])],
                   max |-> [j \in 1..3 |-> V64(vals[j + 3])],
                   span |-> [j \in 1..3 |-> V64(vals[j + 3]) - V64(vals[j])]]

\* in_expanded_bbox, both sides of each comparison multiplied by 10:
\* margin = max(0.25, span * 0.10) is max(16, span / 10) units of 1/64
in_expanded_bbox(p, bbox) ==
    \A j \in 1..3 :
        LET margin10 == Max(160, bbox.span[j])
        IN  /\ 10 * V64(p[j]) >= 10 * bbox.min[j] - margin10
            /\ 10 * V64(p[j]) <= 10 * bbox.max[j] + margin10

\* candidate_count_hint: the u32 at 0x28 when it is in 4..250000
candidate_count_hint(data) ==
    IF Len(data) < HINT_END THEN NoHint
    ELSE IF read_u8(data, HINT_OFFSET + 3) # 0 THEN NoHint
    ELSE LET val == read_u8(data, HINT_OFFSET)
                    + 256 * read_u16(data, HINT_OFFSET + 1)
         IN  IF HINT_MIN <= val /\ val <= HINT_MAX THEN val ELSE NoHint

(***************************************************************************)
(* Python's float arithmetic (IEEE 754 binary64, round to nearest, ties to *)
(* even) for the scores.  A natural number too wide for one integer is a   *)
(* sequence of limbs, lowest first, without a leading zero limb; a float   *)
(* is a sign, such a significand m and an exponent e, standing for         *)
(* m * 2^e.  The scores are far from the ends of the exponent range, so    *)
(* no value here is subnormal or overflows.                                *)
(***************************************************************************)
\* the limb base 2^15 and the digits of a binary64 significand
LIMB_BITS == 15

LIMB == 32768

SIGNIFICAND_BITS == 53

\* 2^k for small k
Pow2(k) == IF k = 0 THEN 1 ELSE 2 ^ k

\* the limb at place k (from 1), zero beyond the last
Limb(a, k) == IF k \in 1..Len(a) THEN a[k] ELSE 0

\* a without its leading zero limbs
Trim(a) ==
    LET used == {k \in 1..Len(a) : a[k] # 0}
    IN  IF used = {} THEN << >>
        ELSE SubSeq(a, 1, CHOOSE k \in used : \A j \in used : j <= k)

\* the limbs of an integer 0 <= v < 2^31, and back
BigOf(v) == Trim(<< v % LIMB, (v \div LIMB) % LIMB, v \div (LIMB * LIMB) >>)

BigToInt(a) == Limb(a, 1) + LIMB * Limb(a, 2) + LIMB * LIMB * Limb(a, 3)

RECURSIVE AddFrom(_, _, _, _)
\* the limbs of a + b from place k on, with the carry into place k
AddFrom(a, b, k, carry) ==
    IF k > Len(a) /\ k > Len(b)
    THEN IF carry = 0 THEN << >> ELSE << carry >>
    ELSE LET sum == Limb(a, k) + Limb(b, k) + carry
         IN  << sum % LIMB >> \o AddFrom(a, b, k + 1, sum \div LIMB)

BigAdd(a, b) == AddFrom(a, b, 1, 0)

RECURSIVE SubFrom(_, _, _, _)
\* the limbs of a - b (a >= b) from place k on, with the borrow from place k
SubFrom(a, b, k, borrow) ==
    IF k > Len(a) THEN << >>
    ELSE LET diff == Limb(a, k) - Limb(b, k) - borrow
         IN  << (diff + LIMB) % LIMB >>
                 \o SubFrom(a, b, k + 1, IF diff < 0 THEN 1 ELSE 0)

BigSub(a, b) == Trim(SubFrom(a, b, 1, 0))

\* -1, 0 or 1 as a < b, a = b or a > b
BigCmp(a, b) ==
    IF Len(a) # Len(b) THEN (IF Len(a) < Len(b) THEN -1 ELSE 1)
    ELSE LET differ == {k \in 1..Len(a) : a[k] # b[k]}
         IN  IF differ = {} THEN 0
             ELSE LET k == CHOOSE d \in differ : \A j \in differ : j <= d
                  IN  IF a[k] < b[k] THEN -1 ELSE 1

RECURSIVE MulSmallFrom(_, _, _, _)
\* the limbs of a * v (0 <= v < LIMB) from place k on
MulSmallFrom(a, v, k, carry) ==
    IF k > Len(a) THEN (IF carry = 0 THEN << >> ELSE << carry >>)
    ELSE LET prod == a[k] * v + carry
         IN  << prod % LIMB >> \o MulSmallFrom(a, v, k + 1, prod \div LIMB)

BigMulSmall(a, v) == Trim(MulSmallFrom(a, v, 1, 0))

\* a * LIMB^k
ShiftLimbs(a, k) == IF a = << >> THEN << >> ELSE [j \in 1..k |-> 0] \o a

RECURSIVE MulFrom(_, _, _)
\* a * (the number of the limbs of b from place k on) * LIMB^(k - 1)
MulFrom(a, b, k) ==
    IF k > Len(b) THEN << >>
    ELSE BigAdd(ShiftLimbs(BigMulSmall(a, b[k]), k - 1), MulFrom(a, b, k + 1))

BigMul(a, b) == MulFrom(a, b, 1)

RECURSIVE DivSmallFrom(_, _, _, _)
\* long division of a by v (0 < v < LIMB) from the limb at place k down,
\* rem being what is left of the higher limbs: the quotient's limbs from
\* place k down, highest first, and the last remainder behind them
DivSmallFrom(a, v, k, rem) ==
    IF k = 0 THEN << rem >>
    ELSE LET cur == rem * LIMB + a[k]
         IN  << cur \div v >> \o DivSmallFrom(a, v, k - 1, cur % v)

\* the quotient and the remainder of a by v (0 < v < LIMB)
BigDivSmall(a, v) ==
    LET out == DivSmallFrom(a, v, Len(a), 0)
    IN  [q |-> Trim([k \in 1..Len(a) |-> out[Len(a) + 1 - k]]),
         r |-> out[Len(a) + 1]]

\* a * 2^k and the whole part of a / 2^k
BigShl(a, k) ==
    ShiftLimbs(BigMulSmall(a, Pow2(k % LIMB_BITS)), k \div LIMB_BITS)

BigShr(a, k) ==
    LET drop == k \div LIMB_BITS
    IN  IF drop >= Len(a) THEN << >>
        ELSE BigDivSmall(SubSeq(a, drop + 1, Len(a)),
                         Pow2(k % LIMB_BITS)).q

\* the number of binary digits of a
BitLen(a) ==
    IF a = << >> THEN 0
    ELSE LIMB_BITS * (Len(a) - 1)
             + (CHOOSE j \in 1..LIMB_BITS :
                    Pow2(j - 1) <= a[Len(a)] /\ a[Len(a)] < Pow2(j))

\* a / 2^k rounded to the nearest integer, ties to the even one
RoundShift(a, k) ==
    IF k = 0 THEN a
    ELSE LET q == BigShr(a, k)
             low == BigSub(a, BigShl(q, k))
             c == BigCmp(low, BigShl(<< 1 >>, k - 1))
         IN  IF c > 0 \/ (c = 0 /\ Limb(q, 1) % 2 = 1)
             THEN BigAdd(q, << 1 >>) ELSE q

\* the float nearest to (-1)^neg * a * 2^e
Fl(neg, a, e) ==
    LET extra == BitLen(a) - SIGNIFICAND_BITS
    IN  IF extra <= 0 THEN [neg |-> neg, m |-> a, e |-> e]
        ELSE [neg |-> neg, m |-> RoundShift(a, extra), e |-> e + extra]

\* float(v) of an integer 0 <= v < 2^31
FloatOfInt(v) == [neg |-> FALSE, m |-> BigOf(v), e |-> 0]

\* the literals 0.75, 0.25, 0.45, 0.10 and 150.0
F075 == [neg |-> FALSE, m |-> << 3 >>, e |-> -2]

F025 == [neg |-> FALSE, m |-> << 1 >>, e |-> -2]

F045 == [neg |-> FALSE, m |-> << 19661, 6553, 13107, 230 >>, e |-> -54]

F010 == [neg |-> FALSE, m |-> << 19661, 6553, 13107, 102 >>, e |-> -55]

F150 == [neg |-> FALSE, m |-> << 75 >>, e |-> 1]

\* a * b
FMul(a, b) == Fl(a.neg # b.neg, BigMul(a.m, b.m), a.e + b.e)

\* a + b
FAdd(a, b) ==
    LET e == IF a.e < b.e THEN a.e ELSE b.e
        xa == BigShl(a.m, a.e - e)
        xb == BigShl(b.m, b.e - e)
    IN  IF a.neg = b.neg THEN Fl(a.neg, BigAdd(xa, xb), e)
        ELSE IF BigCmp(xa, xb) >= 0 THEN Fl(a.neg, BigSub(xa, xb), e)
        ELSE Fl(b.neg, BigSub(xb, xa), e)

\* a - b
FSub(a, b) == FAdd(a, [b EXCEPT !.neg = ~b.neg])

\* p / q of integers 0 <= p and 0 < q < LIMB: the quotient to 70 binary
\* places, one more place saying whether anything was left, rounded
FDiv(p, q) ==
    LET d == BigDivSmall(BigShl(BigOf(p), 70), q)
        x == BigAdd(BigMulSmall(d.q, 2), IF d.r = 0 THEN << >> ELSE << 1 >>)
    IN  Fl(FALSE, x, -71)

\* round(a, 5) in units of 1/100000: the decimal nearest to the float's
\* exact value, ties to the even one
Round5(a) ==
    LET x == BigMul(a.m, BigOf(100000))
        v == BigToInt(IF a.e >= 0 THEN BigShl(x, a.e)
                      ELSE RoundShift(x, 0 - a.e))
    IN  IF a.neg THEN 0 - v ELSE v

\* lines 197-203 and 213: round(score, 5) in units of 1/100000
Score(has_bbox, finite, inbox, nonzero, eval_n) ==
    LET finite_ratio == FDiv(finite, eval_n)
        inbox_ratio == IF finite # 0 THEN FDiv(inbox, finite)
                       ELSE FloatOfInt(0)
        nonzero_ratio == IF finite # 0 THEN FDiv(nonzero, finite)
                         ELSE FloatOfInt(0)
    IN  IF ~has_bbox
        THEN Round5(FAdd(FMul(finite_ratio, F075),
                         FMul(nonzero_ratio, F025)))
        ELSE Round5(FAdd(FAdd(FMul(finite_ratio, F045),
                              FMul(inbox_ratio, F045)),
                         FMul(nonzero_ratio, F010)))

\* lines 169-214: one (offset, stride) candidate, or None when it is skipped
Candidate(data, bbox, count_hint, off, stride) ==
    LET available == (Len(data) - off) \div stride
        eval_n == IF count_hint # NoHint
                  THEN Min(Min(available, EVAL_CAP),
                           Max(EVAL_FLOOR, Min(count_hint, EVAL_CAP)))
                  ELSE Min(available, EVAL_CAP)
        Rec(k) == read_3f(data, off + k * stride)
        finite == {k \in 0..(eval_n - 1) :
                      off + k * stride + 12 <= Len(data)
                          /\ FiniteInRange(Rec(k))}
        nonzero == {k \in finite : NonZero(Rec(k))}
        inbox == IF bbox.tag = "None" THEN finite
                 ELSE {k \in finite : in_expanded_bbox(Rec(k), bbox)}
    IN  IF available < MIN_AVAILABLE THEN NoneResult
        ELSE [tag |-> "cand", offset |-> off, stride |-> stride,
              available |-> available, eval_n |-> eval_n,
              finite |-> Cardinality(finite),
              inbox |-> Cardinality(inbox),
              nonzero |-> Cardinality(nonzero),
              score |-> Score(bbox.tag # "None", Cardinality(finite),
                              Cardinality(inbox), Cardinality(nonzero),
                              eval_n)]

\* a candidate of equal score takes the place of the best one
NotWorse(cand, best) == best.tag = "None" \/ cand.score >= best.score

\* lines 215 and 385: if best is None or cand["score"] > best["score"]
Better(cand, best) == best.tag = "None" \/ cand.score > best.score

\* the later one of two candidates of equal score
KeepLast(cand, best) ==
    IF cand.tag = "cand" /\ (best.tag = "None" \/ cand.score >= best.score)
    THEN cand ELSE best

\* line 215 between a candidate and the best of those before it: the
\* earlier one stays unless the later one scores strictly higher
Keep(cand, best) ==
    IF cand.tag = "cand" /\ Better(cand, best) THEN cand ELSE best

RECURSIVE BestOver(_, _, _, _, _, _)
\* lines 167-216: the two loops, for off in offsets: for stride in strides,
\* over the pairs numbered lo .. hi - 1 in the order the loops visit them
\* (None when every one of them was skipped); the range is halved so that
\* the evaluation stays shallow
BestOver(data, bbox, count_hint, offsets, lo, hi) ==
    IF hi <= lo THEN NoneResult
    ELSE IF hi = lo + 1
    THEN Candidate(data, bbox, count_hint,
                   offsets[(lo \div Len(STRIDES)) + 1],
                   STRIDES[(lo % Len(STRIDES)) + 1])
    ELSE LET mid == (lo + hi) \div 2
         IN  Keep(BestOver(data, bbox, count_hint, offsets, mid, hi),
                  BestOver(data, bbox, count_hint, offsets, lo, mid))

\* VertexOffsets without the sweep
VertexOffsetsCommon(data) == COMMON_OFFSETS

\* VertexOffsets in increasing order: the sweep alone
VertexOffsetsAscending(data) ==
    Range(SWEEP_START, Min(Len(data) - 12, SWEEP_END), SWEEP_STEP)

\* lines 158-162
VertexOffsets(data) ==
    Unique(COMMON_OFFSETS
               \o Range(SWEEP_START, Min(Len(data) - 12, SWEEP_END),
                        SWEEP_STEP))

\* one threshold for every call
LooseThreshold(bbox) == THRESHOLD_HINT

\* line 221: threshold = 0.80 if bbox else 0.88
Threshold(bbox) ==
    IF bbox.tag # "None" THEN THRESHOLD_HINT ELSE THRESHOLD_NO_HINT

\* Target without the cap of max_points
TargetUncapped(best, count_hint, max_points) ==
    IF count_hint # NoHint /\ HINT_MIN <= count_hint
        /\ count_hint <= best.available
    THEN count_hint ELSE best.available

\* lines 228-231
Target(best, count_hint, max_points) ==
    Min(IF count_hint # NoHint /\ HINT_MIN <= count_hint
            /\ count_hint <= best.available
        THEN count_hint ELSE best.available,
        max_points)

\* lines 243-246: the record at stream index k is kept
Survives(data, best, k) ==
    FiniteInRange(read_3f(data, best.offset + k * best.stride))

\* lines 235-249: the stream indices of the first target surviving records
Accepted(data, best, target) ==
    LET all == SelectSeq([k \in 1..best.available |-> k - 1],
                         LAMBDA k : Survives(data, best, k))
    IN  SubSeq(all, 1, Min(Max(target, 0), Len(all)))

Meta(status, best, accepted) ==
    [status |-> status, best |-> best, accepted_vertices |-> accepted]

\* parse_vertex_cloud: positions, orig_indices and parser_meta.  None for
\* positions is the empty list: main only tests positions for truth.
parse_vertex_cloud(data, bbox, max_points, count_hint) ==
    IF Len(data) < MIN_SCAN_SIZE
    THEN [positions |-> << >>, orig_indices |-> << >>,
          parser_meta |-> Meta("too_small", NoneResult, 0)]
    ELSE
    LET offsets == VertexOffsets(data)
        best == BestOver(data, bbox, count_hint, offsets, 0,
                         Len(offsets) * Len(STRIDES))
    IN  IF best.tag = "None"
        THEN [positions |-> << >>, orig_indices |-> << >>,
              parser_meta |-> Meta("no_candidate", NoneResult, 0)]
        ELSE IF best.score < Threshold(bbox)
        THEN [positions |-> << >>, orig_indices |-> << >>,
              parser_meta |-> Meta("low_confidence", best, 0)]
        ELSE
        LET orig == Accepted(data, best, Target(best, count_hint, max_points))
        IN  IF Len(orig) < MIN_VERTICES
            THEN [positions |-> << >>, orig_indices |-> << >>,
                  parser_meta |->
                      Meta("insufficient_vertices", best, Len(orig))]
            ELSE [positions |->
                      [k \in 1..Len(orig) |->
                          read_3f(data,
                                  best.offset + orig[k] * best.stride)],
                  orig_indices |-> orig,
                  parser_meta |-> Meta("ok", best, Len(orig))]


(***************************************************************************)
(* parse_index_buffer: the constants, one candidate's triple loop and the  *)
(* candidate's record.  valid_ratio and score are kept in units of         *)
(* 1/100000, as round(v, 5) leaves them.                                   *)
(***************************************************************************)
LARGE_SPAN == 2048
DENSE_WINDOW_LARGE == 65536
DENSE_WINDOW_SMALL == 147456
DENSE_STEP_LARGE == 32
DENSE_STEP_SMALL == 16
SPARSE_STEP_LARGE == 2048
SPARSE_STEP_SMALL == 1024
TRI_SCAN_CAP_LARGE == 3000
TRI_SCAN_CAP_SMALL == 6000
REGION_FLOOR == 128
REGION_BACK == 2048
SPARSE_LIMIT == 2097152
MIN_TRIANGLES == 24
\* lines 344-348 and 356: the early exits of the triple loop
CONSECUTIVE_INVALID_CAP == 12
NO_VALID_AFTER == 192
NO_VALID_INVALID_CAP == 64
INVALID_DOMINATES_AFTER == 256
DEGENERATE_AFTER == 384
DEGENERATE_CAP == 192
\* lines 388 and 392: the early stop of the search
HIGH_RATIO == 92000
HIGH_VALID == 240
HIGH_CHECKS == 96
\* line 398: 0.50
MIN_RATIO == 50000
\* line 698: max_tris=20000
MAX_TRIS == 20000
\* line 708: len(tri_indices) >= 9
MIN_TRI_INDICES == 9

\* for idx_size in (2, 4)
INDEX_SIZES == << 2, 4 >>

\* _read_idx, little-endian; a 32-bit value of 2^31 and up is read as
\* 2^31 - 1, which is above every vertex span as well
read_idx(data, off, idx_size) ==
    IF idx_size = 2 THEN read_u16(data, off)
    ELSE IF data[off + 4] >= 128 THEN 2147483647
    ELSE read_u32(data, off)

\* lines 291-304
CandidateOffsets(data, vertex_span_count, stream_offset, stream_stride, stream_available, count_hint) ==
    LET large_span == vertex_span_count >= LARGE_SPAN
        dense_window == IF large_span THEN DENSE_WINDOW_LARGE
                        ELSE DENSE_WINDOW_SMALL
        dense_step == IF large_span THEN DENSE_STEP_LARGE
                      ELSE DENSE_STEP_SMALL
        sparse_step == IF large_span THEN SPARSE_STEP_LARGE
                       ELSE SPARSE_STEP_SMALL
        stream_count_guess ==
            IF count_hint # NoHint /\ HINT_MIN <= count_hint
                /\ count_hint <= stream_available
            THEN count_hint
            ELSE Min(stream_available, vertex_span_count)
        start0 == stream_offset
                      + Max(0, stream_count_guess * Max(1, stream_stride))
        idx_region_start ==
            Max(REGION_FLOOR,
                Min(start0, Max(REGION_FLOOR, Len(data) - 6)))
    IN  Unique(Range(Max(REGION_FLOOR, idx_region_start - REGION_BACK),
                     Min(Len(data) - 6, idx_region_start + dense_window),
                     dense_step)
                   \o Range(REGION_FLOOR, Min(Len(data) - 6, SPARSE_LIMIT),
                            sparse_step))

\* TriScanCap with the cap of the small spans for every span
TriScanCapSmall(vertex_span_count) == TRI_SCAN_CAP_SMALL

TriScanCap(vertex_span_count) ==
    IF vertex_span_count >= LARGE_SPAN THEN TRI_SCAN_CAP_LARGE
    ELSE TRI_SCAN_CAP_SMALL

\* lines 317-323: the number of triples to scan at (off, idx_size); a
\* candidate with fewer than 24 is passed over
TriCountScan(data, off, idx_size, vertex_span_count, max_tris) ==
    LET remain == Len(data) - off
    IN  IF remain < idx_size * MIN_TRIANGLES THEN 0
        ELSE Min(Min(remain \div idx_size, max_tris * 3 * 2) \div 3,
                 TriScanCap(vertex_span_count))

\* lines 325-330; done is set when the loop is left by a break
NoTriples ==
    [vals |-> << >>, valid |-> 0, invalid |-> 0, deg |-> 0,
     consecutive_invalid |-> 0, max_idx_seen |-> 0, done |-> FALSE]

\* the body of the loop without the test for equal corners
TripleStepUnfiltered(data, off, idx_size, vertex_span_count, max_tris, t, st) ==
    LET base == off + t * 3 * idx_size
    IN
    IF base + 3 * idx_size > Len(data) THEN [st EXCEPT !.done = TRUE]
    ELSE
    LET i0 == read_idx(data, base, idx_size)
        i1 == read_idx(data, base + idx_size, idx_size)
        i2 == read_idx(data, base + 2 * idx_size, idx_size)
    IN
    IF i0 >= vertex_span_count \/ i1 >= vertex_span_count
           \/ i2 >= vertex_span_count
    THEN LET s1 == [st EXCEPT !.invalid = @ + 1,
                              !.consecutive_invalid = @ + 1]
         IN  [s1 EXCEPT !.done =
                 \/ s1.consecutive_invalid > CONSECUTIVE_INVALID_CAP
                        /\ s1.valid >= MIN_TRIANGLES
                 \/ t > NO_VALID_AFTER /\ s1.valid = 0
                        /\ s1.invalid > NO_VALID_INVALID_CAP
                 \/ t > INVALID_DOMINATES_AFTER
                        /\ s1.invalid > s1.valid * 4]
    ELSE
    LET s4 == [st EXCEPT !.consecutive_invalid = 0,
                         !.max_idx_seen = Max(Max(@, i0), Max(i1, i2)),
                         !.vals = @ \o << i0, i1, i2 >>, !.valid = @ + 1]
    IN  [s4 EXCEPT !.done = s4.valid >= max_tris]

\* lines 333-363: the body of the loop for triple t
TripleStep(data, off, idx_size, vertex_span_count, max_tris, t, st) ==
    LET base == off + t * 3 * idx_size
    IN
    IF base + 3 * idx_size > Len(data) THEN [st EXCEPT !.done = TRUE]
    ELSE
    LET i0 == read_idx(data, base, idx_size)
        i1 == read_idx(data, base + idx_size, idx_size)
        i2 == read_idx(data, base + 2 * idx_size, idx_size)
    IN
    IF i0 >= vertex_span_count \/ i1 >= vertex_span_count
           \/ i2 >= vertex_span_count
    THEN LET s1 == [st EXCEPT !.invalid = @ + 1,
                              !.consecutive_invalid = @ + 1]
         IN  [s1 EXCEPT !.done =
                 \/ s1.consecutive_invalid > CONSECUTIVE_INVALID_CAP
                        /\ s1.valid >= MIN_TRIANGLES
                 \/ t > NO_VALID_AFTER /\ s1.valid = 0
                        /\ s1.invalid > NO_VALID_INVALID_CAP
                 \/ t > INVALID_DOMINATES_AFTER
                        /\ s1.invalid > s1.valid * 4]
    ELSE
    LET s2 == [st EXCEPT !.consecutive_invalid = 0,
                         !.max_idx_seen = Max(Max(@, i0), Max(i1, i2))]
    IN
    IF i0 = i1 \/ i1 = i2 \/ i0 = i2
    THEN LET s3 == [s2 EXCEPT !.deg = @ + 1]
         IN  [s3 EXCEPT !.done = t > DEGENERATE_AFTER /\ s3.valid < 8
                                    /\ s3.deg > DEGENERATE_CAP]
    ELSE
    LET s4 == [s2 EXCEPT !.vals = @ \o << i0, i1, i2 >>, !.valid = @ + 1]
    IN  [s4 EXCEPT !.done = s4.valid >= max_tris]

RECURSIVE TripleLoop(_, _, _, _, _, _, _, _)
\* line 332: for t in range(tri_count_scan), here over the triples
\* lo .. hi - 1 with the counts so far; nothing is read after a break.
\* The range is halved so that the evaluation stays shallow.
TripleLoop(data, off, idx_size, vertex_span_count, max_tris, lo, hi, st) ==
    IF st.done \/ hi <= lo THEN st
    ELSE IF hi = lo + 1
    THEN TripleStep(data, off, idx_size, vertex_span_count, max_tris, lo, st)
    ELSE LET mid == (lo + hi) \div 2
         IN  TripleLoop(data, off, idx_size, vertex_span_count, max_tris,
                        mid, hi,
                        TripleLoop(data, off, idx_size, vertex_span_count,
                                   max_tris, lo, mid, st))

\* line 369: ratio = valid / total if total else 0.0
Ratio(valid, invalid, deg) ==
    IF valid + invalid + deg = 0 THEN FloatOfInt(0)
    ELSE FDiv(valid, valid + invalid + deg)

\* line 378: round(ratio, 5) in units of 1/100000
ValidRatio(valid, invalid, deg) == Round5(Ratio(valid, invalid, deg))

\* lines 370 and 380: round((valid * 1.0) + (ratio * 150.0)
\* - (invalid * 0.75) - (deg * 0.25), 5) in units of 1/100000
IndexScore(valid, invalid, deg) ==
    Round5(FSub(FSub(FAdd(FloatOfInt(valid),
                          FMul(Ratio(valid, invalid, deg), F150)),
                     FMul(FloatOfInt(invalid), F075)),
                FMul(FloatOfInt(deg), F025)))

\* lines 365-381: the candidate's record and its triangle list, or None
\* when fewer than 24 triples are valid
EvaluateCandidate(data, off, idx_size, vertex_span_count, max_tris) ==
    LET st == TripleLoop(data, off, idx_size, vertex_span_count, max_tris,
                         0, TriCountScan(data, off, idx_size,
                                         vertex_span_count, max_tris),
                         NoTriples)
    IN  IF st.valid < MIN_TRIANGLES THEN NoneResult
        ELSE [tag |-> "cand",
              cand |-> [tag |-> "cand", offset |-> off,
                        index_size |-> idx_size,
                        triangles_valid |-> st.valid,
                        triangles_invalid |-> st.invalid,
                        triangles_degenerate |-> st.deg,
                        valid_ratio |->
                            ValidRatio(st.valid, st.invalid, st.deg),
                        max_index_seen |-> st.max_idx_seen,
                        score |-> IndexScore(st.valid, st.invalid, st.deg)],
              vals |-> st.vals]

\* HighConfidence without waiting for the 96 checks
EagerConfidence(best, candidate_checks) ==
    /\ best.tag # "None"
    /\ best.valid_ratio >= HIGH_RATIO
    /\ best.triangles_valid >= HIGH_VALID

\* lines 388 and 392
HighConfidence(best, candidate_checks) ==
    /\ best.tag # "None"
    /\ best.valid_ratio >= HIGH_RATIO
    /\ best.triangles_valid >= HIGH_VALID
    /\ candidate_checks >= HIGH_CHECKS

\* a best candidate is turned down below 0.48 only
LaxIndexConfidence(best) == best.valid_ratio < MIN_RATIO - 2000

\* line 398: the best candidate is turned down
LowIndexConfidence(best) == best.valid_ratio < MIN_RATIO

\* a scan cut by the deadline returns nothing
DiscardOnTimeout(best, best_indices, timed_out) ==
    IF timed_out \/ best.tag = "None" \/ best_indices = << >>
    THEN [indices |-> << >>, status |-> "no_index_candidate",
          scan_note |-> "", best |-> NoneResult]
    ELSE IF LowIndexConfidence(best)
    THEN [indices |-> << >>, status |-> "low_index_confidence",
          scan_note |-> "", best |-> best]
    ELSE [indices |-> best_indices, status |-> "ok", scan_note |-> "",
          best |-> best]

\* lines 395-404: what parse_index_buffer returns for the best candidate;
\* None for the indices is the empty list (main tests idx_source for truth)
IndexResult(best, best_indices, timed_out) ==
    IF best.tag = "None" \/ best_indices = << >>
    THEN [indices |-> << >>, status |-> "no_index_candidate",
          scan_note |-> "", best |-> NoneResult]
    ELSE IF LowIndexConfidence(best)
    THEN [indices |-> << >>, status |-> "low_index_confidence",
          scan_note |-> "", best |-> best]
    ELSE [indices |-> best_indices, status |-> "ok",
          scan_note |-> IF timed_out THEN "index_scan_deadline_hit" ELSE "",
          best |-> best]

\* lines 306-309: the locals before the loops; done is set when the loops
\* are left by a break
NoScan ==
    [best |-> NoneResult, best_indices |-> << >>, candidate_checks |-> 0,
     done |-> FALSE]

\* lines 312-393 for candidate c (from 0) of the two loops, offset
\* offsets[c \div 2 + 1] and width INDEX_SIZES[c % 2 + 1], while
\* time.monotonic() stays below scan_deadline
ScanStep(data, vertex_span_count, max_tris, offsets, c, st) ==
    LET off == offsets[(c \div Len(INDEX_SIZES)) + 1]
        idx_size == INDEX_SIZES[(c % Len(INDEX_SIZES)) + 1]
        last_size == (c % Len(INDEX_SIZES)) + 1 = Len(INDEX_SIZES)
        checks == st.candidate_checks + 1
        found == IF TriCountScan(data, off, idx_size, vertex_span_count,
                                 max_tris) < MIN_TRIANGLES
                 THEN NoneResult
                 ELSE EvaluateCandidate(data, off, idx_size,
                                        vertex_span_count, max_tris)
    IN  IF found.tag = "None"
        THEN [st EXCEPT !.candidate_checks = checks,
                        !.done = last_size /\ HighConfidence(st.best, checks)]
        ELSE LET better == Better(found.cand, st.best)
                 new_best == IF better THEN found.cand ELSE st.best
             IN  [best |-> new_best,
                  best_indices |-> IF better THEN found.vals
                                   ELSE st.best_indices,
                  candidate_checks |-> checks,
                  done |-> HighConfidence(new_best, checks)]

RECURSIVE ScanLoop(_, _, _, _, _, _, _)
\* lines 310-393 over the candidates lo .. hi - 1; the range is halved so
\* that the evaluation stays shallow
ScanLoop(data, vertex_span_count, max_tris, offsets, lo, hi, st) ==
    IF st.done \/ hi <= lo THEN st
    ELSE IF hi = lo + 1
    THEN ScanStep(data, vertex_span_count, max_tris, offsets, lo, st)
    ELSE LET mid == (lo + hi) \div 2
         IN  ScanLoop(data, vertex_span_count, max_tris, offsets, mid, hi,
                      ScanLoop(data, vertex_span_count, max_tris, offsets,
                               lo, mid, st))

\* parse_index_buffer when time.monotonic() never passes scan_deadline
parse_index_buffer(data, vertex_span_count, stream_offset, stream_stride, stream_available, count_hint, max_tris) ==
    IF vertex_span_count < MIN_VERTICES
    THEN [indices |-> << >>, status |-> "vertex_span_too_small",
          scan_note |-> "", best |-> NoneResult]
    ELSE LET offsets == CandidateOffsets(data, vertex_span_count,
                                         stream_offset, stream_stride,
                                         stream_available, count_hint)
             st == ScanLoop(data, vertex_span_count, max_tris, offsets, 0,
                            Len(offsets) * Len(INDEX_SIZES), NoScan)
         IN  IndexResult(st.best, st.best_indices, FALSE)

(***************************************************************************)
(* remap_triangles_to_compact.                                             *)
(***************************************************************************)
\* orig_to_new = {orig: i for i, orig in enumerate(orig_indices)}: a later
\* entry of the same key replaces an earlier one
OrigToNew(orig_indices, a) ==
    CHOOSE k \in 1..Len(orig_indices) :
        /\ orig_indices[k] = a
        /\ \A j \in (k + 1)..Len(orig_indices) : orig_indices[j] # a

InOrig(orig_indices, a) == \E k \in 1..Len(orig_indices) : orig_indices[k] = a

\* no remapped triangle is dropped for its corners
NeverDegenerate(n0, n1, n2) == FALSE

\* line 419: the remapped triangle is dropped when two corners coincide
RemapDegenerate(n0, n1, n2) == n0 = n1 \/ n1 = n2 \/ n0 = n2

\* lines 415-418 for the triple at list position t (0-based): the triple
\* rewritten through orig_to_new
Remapped(indices, orig_indices, t) ==
    [j \in 1..3 |-> OrigToNew(orig_indices, indices[t + j]) - 1]

\* lines 415-420 for the triple at list position t: it reaches the output
RemapKeeps(indices, orig_indices, t) ==
    /\ \A j \in 1..3 : InOrig(orig_indices, indices[t + j])
    /\ LET tri == Remapped(indices, orig_indices, t)
       IN  ~RemapDegenerate(tri[1], tri[2], tri[3])

\* lines 412-421: the list positions of the complete triples that reach
\* the output, in the order of the loop
RemapKept(indices, orig_indices) ==
    SelectSeq([k \in 1..(Len(indices) \div 3) |-> 3 * (k - 1)],
              LAMBDA t : RemapKeeps(indices, orig_indices, t))

remap_triangles_to_compact(indices, orig_indices) ==
    IF indices = << >> \/ orig_indices = << >> THEN << >>
    ELSE LET kept == RemapKept(indices, orig_indices)
         IN  [k \in 1..(3 * Len(kept)) |->
                 Remapped(indices, orig_indices,
                          kept[((k - 1) \div 3) + 1])[((k - 1) % 3) + 1]]

(***************************************************************************)
(* Input files of the heuristic decoder, written from a layout record: a   *)
(* header that is zero but for the six bounding-box floats at 0x0C and the *)
(* count word at 0x28, the position stream at f.offset (each record the    *)
(* three floats of a point, then zeros up to the stride), the index        *)
(* values, and a tail of zero bytes.  Floats are named by their place in   *)
(* FloatPatterns (from 0).                                                 *)
(***************************************************************************)
Filled(k, b) == [j \in 1..k |-> b]

PointBytes(p, stride) ==
    FloatOf(p[1]) \o FloatOf(p[2]) \o FloatOf(p[3]) \o Zeros(stride - 12)

\* the position stream: byte j of the stream belongs to record j \div stride
StreamBytes(points, stride) ==
    [j \in 1..(Len(points) * stride) |->
        PointBytes(points[((j - 1) \div stride) + 1], stride)
            [((j - 1) % stride) + 1]]

\* the index values, each index_size bytes, lowest byte first
IndexBytes(indices, index_size) ==
    [j \in 1..(Len(indices) * index_size) |->
        LE(indices[((j - 1) \div index_size) + 1], index_size)
            [((j - 1) % index_size) + 1]]

StubBytes(f) ==
    Zeros(BBOX_OFFSET)
        \o Flatten([j \in 1..6 |-> FloatOf(f.box[j])])
        \o Zeros(HINT_OFFSET - BBOX_END)
        \o LE(f.hint, 4)
        \o Zeros(f.offset - HINT_END)
        \o StreamBytes(f.points, f.stride)
        \o IndexBytes(f.indices, f.index_size)
        \o Zeros(f.tail)

\* the box from (-1, -1, -1) to (4, 4, 4), and no box (six zeros)
Box == << 7, 7, 7, 4, 4, 4 >>

NoBox == << 0, 0, 0, 0, 0, 0 >>

\* the k-th point of a stream (k from 0): coordinates among 1.0 .. 4.0
Point(k) == << 1 + (k % 4), 1 + ((k + 1) % 4), 1 + ((k + 2) % 4) >>

Origin == << 0, 0, 0 >>

NaNPoint == << 5, 5, 5 >>

Points(count) == [k \in 1..count |-> Point(k - 1)]

\* the index values of count triangles over the first span vertices,
\* triangle t being (t, t + 1, t + 2) modulo span
Triangles(count, span) ==
    [k \in 1..(3 * count) |-> (((k - 1) \div 3) + ((k - 1) % 3)) % span]

StubLayout(box, hint, offset, stride, points, index_size, indices, tail) ==
    [box |-> box, hint |-> hint, offset |-> offset, stride |-> stride,
     points |-> points, index_size |-> index_size, indices |-> indices,
     tail |-> tail]

(***************************************************************************)
(* State.  nod_files and stats belong to main; data, nod and mesh to the   *)
(* running (or last) call of convert_nod_file; the others are the locals   *)
(* of extract_mesh.  pc is the position: "main" at the head of main's      *)
(* loop, "extract" at the call of extract_mesh, "group" at the head of the *)
(* mesh-group loop, "strip" and "list" at the heads of the two index       *)
(* loops, "finish" after the mesh-group loop, "crashed" when an exception  *)
(* has left main.                                                          *)
(***************************************************************************)
VARIABLES nod_files, stats, pc, data, nod, mesh,
          total, flat_positions, all_triangles, group_triangles, vtx_offset,
          mg, i, v1, v2, v3, n

\* the state of the structured decoder
nodvars == << nod_files, stats, pc, data, nod, mesh,
              total, flat_positions, all_triangles, group_triangles,
              vtx_offset, mg, i, v1, v2, v3, n >>

(***************************************************************************)
(* State of main of build_model_stubs.py.  files is what is left of the    *)
(* sorted file list, write_gltf and max_points_per_mesh are the options,   *)
(* records and the three counters are main's; positions, orig_indices and  *)
(* parser_meta are what parse_vertex_cloud returned for the current file;  *)
(* candidate_offsets, best, best_indices, timed_out and candidate_checks   *)
(* are the locals of parse_index_buffer, off_k and idx_k the places of its *)
(* two loops in candidate_offsets and in (2, 4), and deadline_elapsed says *)
(* whether time.monotonic() is past scan_deadline; idx_source and idx_meta *)
(* are what parse_index_buffer returned, tri_indices what                  *)
(* remap_triangles_to_compact returned.  stub_pc is the position: "files"  *)
(* at the head of main's loop, "index_search" at the call of               *)
(* parse_index_buffer, "idx_check" at the head of a candidate's            *)
(* evaluation (line 313), "idx_triples" before its triple loop, "idx_end"  *)
(* after the loops, "assemble" at line 702, "fallback" at line 719,        *)
(* "remap" at a call of remap_triangles_to_compact on its own and "done"   *)
(* after it.                                                               *)
(***************************************************************************)
VARIABLES files, write_gltf, max_points_per_mesh, records,
          gltf_triangle_count, gltf_pointcloud_count,
          gltf_fallback_stub_count, stub_pc,
          positions, orig_indices, parser_meta,
          candidate_offsets, off_k, idx_k, best, best_indices, timed_out,
          candidate_checks, deadline_elapsed,
          idx_source, idx_meta, tri_indices

\* the locals of parse_index_buffer and the clock
scanvars == << candidate_offsets, off_k, idx_k, best, best_indices,
               timed_out, candidate_checks, deadline_elapsed >>

\* what the calls returned for the current file
callvars == << positions, orig_indices, parser_meta, idx_source, idx_meta,
               tri_indices >>

\* main's own variables
mainvars == << files, write_gltf, max_points_per_mesh, records,
               gltf_triangle_count, gltf_pointcloud_count,
               gltf_fallback_stub_count >>

stubvars == << mainvars, stub_pc, callvars, scanvars >>

vars == << nodvars, stubvars >>

NoMeta == [status |-> "none", best |-> NoneResult, accepted_vertices |-> 0]

NoIndexMeta ==
    [status |-> "none", scan_note |-> "", best |-> NoneResult]

\* the locals of parse_index_buffer before its loops (lines 306-309)
FreshScan ==
    /\ candidate_offsets = << >>
    /\ off_k = 1
    /\ idx_k = 1
    /\ best = NoneResult
    /\ best_indices = << >>
    /\ timed_out = FALSE
    /\ candidate_checks = 0
    /\ deadline_elapsed = FALSE

\* nothing returned yet for the current file
FreshCalls ==
    /\ positions = << >>
    /\ orig_indices = << >>
    /\ parser_meta = NoMeta
    /\ idx_source = << >>
    /\ idx_meta = NoIndexMeta
    /\ tri_indices = << >>

\* lines 626-631
FreshMain ==
    /\ records = << >>
    /\ gltf_triangle_count = 0
    /\ gltf_pointcloud_count = 0
    /\ gltf_fallback_stub_count = 0

\* build_model_stubs.py is not running
StubIdle ==
    /\ files = << >>
    /\ write_gltf = FALSE
    /\ max_points_per_mesh = 0
    /\ FreshMain
    /\ stub_pc = "files"
    /\ FreshCalls
    /\ FreshScan

\* the locals of extract_mesh
locals == << total, flat_positions, all_triangles, group_triangles, vtx_offset,
             mg, i, v1, v2, v3, n >>

\* a file of the directory: readable with its bytes, or one whose read fails
Readable(bytes) == [readable |-> TRUE, bytes |-> bytes]

Unreadable == [readable |-> FALSE, bytes |-> << >>]

\* stats = {'ok': 0, 'parse_fail': 0, 'extract_fail': 0, 'errors': 0}
NoStats == [ok |-> 0, parse_fail |-> 0, extract_fail |-> 0, errors |-> 0]

Count(st, key) == [st EXCEPT ![key] = @ + 1]

FreshLocals ==
    /\ total = 0
    /\ flat_positions = << >>
    /\ all_triangles = << >>
    /\ group_triangles = << >>
    /\ vtx_offset = 0
    /\ mg = 0
    /\ i = 0
    /\ v1 = NoIndex
    /\ v2 = NoIndex
    /\ v3 = NoIndex
    /\ n = 0

InitCall ==
    /\ stats = NoStats
    /\ pc = "main"
    /\ data = << >>
    /\ nod = NoneResult
    /\ mesh = NoneResult
    /\ FreshLocals
    /\ StubIdle

\* main over a directory of one file
Init ==
    /\ nod_files \in {<< Readable(d) >> : d \in Inputs} \cup {<< Unreadable >>}
    /\ InitCall

(***************************************************************************)
(* convert_nod_file up to the call of extract_mesh.                        *)
(***************************************************************************)
\* a new call starts with fresh locals
EnterCall(bytes, parsed) ==
    /\ data' = bytes
    /\ nod' = parsed
    /\ mesh' = NoneResult
    /\ total' = 0
    /\ flat_positions' = << >>
    /\ all_triangles' = << >>
    /\ group_triangles' = << >>
    /\ vtx_offset' = 0
    /\ mg' = 0
    /\ i' = 0
    /\ v1' = NoIndex
    /\ v2' = NoIndex
    /\ v3' = NoIndex
    /\ n' = 0

\* the call returns to main's loop, which goes on with the next file
ReturnToMain(key) ==
    /\ stats' = Count(stats, key)
    /\ nod_files' = Tail(nod_files)
    /\ pc' = "main"

\* read_bytes raises OSError: errors is counted
ConvertReadError ==
    /\ pc = "main"
    /\ nod_files # << >>
    /\ ~Head(nod_files).readable
    /\ EnterCall(<< >>, NoneResult)
    /\ ReturnToMain("errors")
    /\ UNCHANGED stubvars

\* parse_nod returns None: parse_fail is counted
ConvertParseFail ==
    /\ pc = "main"
    /\ nod_files # << >>
    /\ Head(nod_files).readable
    /\ LET parsed == parse_nod(Head(nod_files).bytes)
       IN  /\ parsed.tag = "None"
           /\ EnterCall(Head(nod_files).bytes, parsed)
    /\ ReturnToMain("parse_fail")
    /\ UNCHANGED stubvars

\* parse_nod raises: nothing catches it, neither here nor in main
ConvertParseRaise ==
    /\ pc = "main"
    /\ nod_files # << >>
    /\ Head(nod_files).readable
    /\ LET parsed == parse_nod(Head(nod_files).bytes)
       IN  /\ parsed.tag = "IndexError"
           /\ EnterCall(Head(nod_files).bytes, parsed)
    /\ pc' = "crashed"
    /\ UNCHANGED << nod_files, stats >>
    /\ UNCHANGED stubvars

\* parse_nod returns a record: extract_mesh is called
ConvertParseOk ==
    /\ pc = "main"
    /\ nod_files # << >>
    /\ Head(nod_files).readable
    /\ LET parsed == parse_nod(Head(nod_files).bytes)
       IN  /\ parsed.tag = "nod"
           /\ EnterCall(Head(nod_files).bytes, parsed)
    /\ pc' = "extract"
    /\ UNCHANGED << nod_files, stats >>
    /\ UNCHANGED stubvars


(***************************************************************************)
(* extract_mesh                                                            *)
(***************************************************************************)
\* a position with a non-finite component becomes (0.0, 0.0, 0.0)
SanitizePos(pos) ==
    IF isfinite(pos[1]) /\ isfinite(pos[2]) /\ isfinite(pos[3])
    THEN pos ELSE << ZeroFloat, ZeroFloat, ZeroFloat >>

\* the vertex groups flattened into one sequence, in group order
FlatPositions(all_vertices) ==
    Flatten([g \in 1..Len(all_vertices) |->
                [k \in 1..Len(all_vertices[g]) |->
                    SanitizePos(all_vertices[g][k].pos)]])

\* the float32 1.0, and the normal (0.0, 1.0, 0.0) of lines 420 and 427
OneFloat == << 0, 0, 128, 63 >>

UpNormal == << ZeroFloat, OneFloat, ZeroFloat >>

\* lines 419-420: a normal with a non-finite component becomes (0, 1, 0)
SanitizeNormal(nrm) ==
    IF isfinite(nrm[1]) /\ isfinite(nrm[2]) /\ isfinite(nrm[3])
    THEN nrm ELSE UpNormal

\* lines 425-426: nlen < 0.001.  No component reaches 0.001 (the float32
\* 0x3A83126F and up) and the squares, in units of 2^-48, add up to less
\* than 1e-6 = 281474976.7 units; exact for multiples of 2^-24
ShortNormal(nrm) ==
    /\ \A j \in 1..3 : MagBits(nrm[j]) < 981668463
    /\ Scaled(nrm[1], 24) * Scaled(nrm[1], 24)
           + Scaled(nrm[2], 24) * Scaled(nrm[2], 24)
           + Scaled(nrm[3], 24) * Scaled(nrm[3], 24) < 281474977

\* lines 425-429: the normal of unit length.  The quotients nx / nlen are
\* kept as the vector dir, in units of 1/64, and the square len2 of its
\* length: the normal is dir / sqrt(len2); the stored components are
\* multiples of 1/64 up to 1e6
Normalize(nrm) ==
    LET kept == IF ShortNormal(nrm) THEN UpNormal ELSE nrm
    IN  [dir  |-> << V64(kept[1]), V64(kept[2]), V64(kept[3]) >>,
         len2 |-> V64(kept[1]) * V64(kept[1]) + V64(kept[2]) * V64(kept[2])
                      + V64(kept[3]) * V64(kept[3])]

\* lines 421-422: a uv pair with a non-finite component becomes (0, 0)
SanitizeUv(uv) ==
    IF isfinite(uv[1]) /\ isfinite(uv[2]) THEN uv
    ELSE << ZeroFloat, ZeroFloat >>

\* lines 432-433: max(-10.0, min(10.0, u)), in units of 1/64
Clamp(c) == Max(0 - 10 * V64(OneFloat), Min(10 * V64(OneFloat), V64(c)))

\* line 437: v = 1.0 - v, in units of 1/64
FlipV(v) == V64(OneFloat) - v

\* lines 421-437: the uv pair of a vertex, in units of 1/64
UvOf(uv) ==
    << Clamp(SanitizeUv(uv)[1]), FlipV(Clamp(SanitizeUv(uv)[2])) >>

\* lines 409-442: flat_normals and flat_uvs, in group order
FlatNormals(all_vertices) ==
    Flatten([g \in 1..Len(all_vertices) |->
                [k \in 1..Len(all_vertices[g]) |->
                    Normalize(SanitizeNormal(all_vertices[g][k].normal))]])

FlatUvs(all_vertices) ==
    Flatten([g \in 1..Len(all_vertices) |->
                [k \in 1..Len(all_vertices[g]) |->
                    UvOf(all_vertices[g][k].uv)]])

\* if not all_vertices or not indices or not mesh_groups
NothingToExtract(nd) ==
    nd.all_vertices = << >> \/ nd.indices = << >> \/ nd.mesh_groups = << >>

\* fewer than three vertices make no triangle
TooFewVertices(count) == count < 3

\* the two early returns of None
ReturnsEarly(nd) ==
    NothingToExtract(nd) \/ TooFewVertices(Len(FlatPositions(nd.all_vertices)))

\* the call returns None, before or after the vertices are flattened
ExtractNothing ==
    /\ pc = "extract"
    /\ ReturnsEarly(nod)
    /\ IF NothingToExtract(nod)
       THEN UNCHANGED << total, flat_positions >>
       ELSE /\ flat_positions' = FlatPositions(nod.all_vertices)
            /\ total' = Len(FlatPositions(nod.all_vertices))
    /\ mesh' = NoneResult
    /\ ReturnToMain("extract_fail")
    /\ UNCHANGED << data, nod, all_triangles, group_triangles, vtx_offset,
                    mg, i, v1, v2, v3, n >>
    /\ UNCHANGED stubvars

\* the vertices are flattened and the mesh-group loop is entered
ExtractFlatten ==
    /\ pc = "extract"
    /\ ~ReturnsEarly(nod)
    /\ flat_positions' = FlatPositions(nod.all_vertices)
    /\ total' = Len(FlatPositions(nod.all_vertices))
    /\ all_triangles' = << >>
    /\ group_triangles' = << >>
    /\ vtx_offset' = 0
    /\ mg' = 1
    /\ pc' = "group"
    /\ UNCHANGED << nod_files, stats, data, nod, mesh, i, v1, v2, v3, n >>
    /\ UNCHANGED stubvars

\* lod0 = mg['lods'][0] of the current mesh group
Lod0 == nod.mesh_groups[mg].lods[1]

MatId == nod.mesh_groups[mg].material_id

\* if mat_id not in group_triangles: group_triangles[mat_id] = []
WithBucket(buckets, mat_id) ==
    IF mat_id \in DOMAIN buckets THEN buckets ELSE buckets @@ (mat_id :> << >>)

\* ExtendBucket putting the triangle in front of the bucket
PrependBucket(buckets, mat_id, tri) ==
    [buckets EXCEPT ![mat_id] = tri \o @]

\* group_triangles[mat_id].extend(tri)
ExtendBucket(buckets, mat_id, tri) ==
    [buckets EXCEPT ![mat_id] = @ \o tri]

\* head of "for mg in mesh_groups": the bucket is made, the strip is entered
\* with a fresh window and winding counter, or skipped when it is empty
GroupBegin ==
    /\ pc = "group"
    /\ mg <= Len(nod.mesh_groups)
    /\ group_triangles' = WithBucket(group_triangles, MatId)
    /\ IF Lod0.strip_count > 0
       THEN /\ v1' = NoIndex
            /\ v2' = NoIndex
            /\ v3' = NoIndex
            /\ n' = 0
            /\ i' = Lod0.strip_start
            /\ pc' = "strip"
       ELSE /\ i' = 0
            /\ pc' = "list"
            /\ UNCHANGED << v1, v2, v3, n >>
    /\ UNCHANGED << nod_files, stats, data, nod, mesh, total, flat_positions,
                    all_triangles, vtx_offset, mg >>
    /\ UNCHANGED stubvars

\* IsDegenerate comparing neighbours only
IsDegenerateAdjacent(a, b, c) == a = b \/ b = c

\* v1 == v2 or v2 == v3 or v1 == v3
IsDegenerate(a, b, c) == a = b \/ b = c \/ a = c

\* OutOfRange with > for >=
OutOfRangeOffByOne(a, b, c, count) == a > count \/ b > count \/ c > count

\* a >= total or b >= total or c >= total
OutOfRange(a, b, c, count) == a >= count \/ b >= count \/ c >= count

\* SkipTo leaving the loop (break for continue)
SkipToEnd(pos, end) == end

\* continue after a window or triple out of range: the loop takes the next
\* position (end is where the loop's range ends)
SkipTo(pos, end) == pos + 1

\* n = (n + 1) % 2
FlipWinding(w) == (w + 1) % 2

\* WindingAfter flipping for emitted windows only
WindingAfterEmitted(w, degenerate, out_of_range) ==
    IF degenerate \/ out_of_range THEN w ELSE FlipWinding(w)

\* the winding counter after a complete window: flipped in each of the three
\* branches (degenerate, out of range, emitted)
WindingAfter(w, degenerate, out_of_range) == FlipWinding(w)

\* Wind without the swap
WindUnswapped(w, a, b, c) == << a, b, c >>

\* tri = [a, b, c] if n == 0 else [a, c, b]
Wind(w, a, b, c) == IF w = 0 THEN << a, b, c >> ELSE << a, c, b >>

\* the strip loop is over: past the range, or past the index buffer
StripOver ==
    \/ i >= Lod0.strip_start + Lod0.strip_count
    \/ i >= Len(nod.indices)

\* one pass of the strip loop
StripStep ==
    /\ pc = "strip"
    /\ IF StripOver
       THEN /\ i' = 0
            /\ pc' = "list"
            /\ UNCHANGED << v1, v2, v3, n, all_triangles, group_triangles >>
       ELSE
         /\ pc' = "strip"
         /\ IF v1 = NoIndex
            THEN /\ v1' = nod.indices[i + 1]
                 /\ i' = i + 1
                 /\ UNCHANGED << v2, v3, n, all_triangles, group_triangles >>
            ELSE IF v2 = NoIndex
            THEN /\ v2' = nod.indices[i + 1]
                 /\ i' = i + 1
                 /\ UNCHANGED << v1, v3, n, all_triangles, group_triangles >>
            ELSE
              /\ v1' = IF v3 = NoIndex THEN v1 ELSE v2
              /\ v2' = IF v3 = NoIndex THEN v2 ELSE v3
              /\ v3' = nod.indices[i + 1]
              /\ n' = WindingAfter(n, IsDegenerate(v1', v2', v3'),
                                   OutOfRange(v1' + vtx_offset, v2' + vtx_offset,
                                              v3' + vtx_offset, total))
              /\ IF IsDegenerate(v1', v2', v3')
                 THEN /\ i' = i + 1
                      /\ UNCHANGED << all_triangles, group_triangles >>
                 ELSE IF OutOfRange(v1' + vtx_offset, v2' + vtx_offset,
                                    v3' + vtx_offset, total)
                 THEN /\ i' = SkipTo(i, Lod0.strip_start + Lod0.strip_count)
                      /\ UNCHANGED << all_triangles, group_triangles >>
                 ELSE LET tri == Wind(n, v1' + vtx_offset, v2' + vtx_offset,
                                      v3' + vtx_offset)
                      IN  /\ i' = i + 1
                          /\ all_triangles' = all_triangles \o tri
                          /\ group_triangles' =
                                 ExtendBucket(group_triangles, MatId, tri)
    /\ UNCHANGED << nod_files, stats, data, nod, mesh, total, flat_positions,
                    vtx_offset, mg >>
    /\ UNCHANGED stubvars

\* AddDeclared leaving the offset where it was
KeepOffset(offset, group) == offset

\* vtx_offset += mg['vertex_count']: the descriptor's declared count
AddDeclared(offset, group) == offset + group.vertex_count

\* the list loop is over: no list, all triples taken, or a triple that
\* reaches the end of the index buffer
ListOver ==
    \/ Lod0.list_count = 0
    \/ i >= Lod0.list_count \div 3
    \/ Lod0.list_start + i * 3 + 2 >= Len(nod.indices)

\* one pass of the list loop; when it is over the group's declared
\* vertex_count is added to the offset and the next group is taken
ListStep ==
    /\ pc = "list"
    /\ IF ListOver
       THEN /\ vtx_offset' = AddDeclared(vtx_offset, nod.mesh_groups[mg])
            /\ mg' = mg + 1
            /\ pc' = "group"
            /\ UNCHANGED << i, all_triangles, group_triangles >>
       ELSE
         LET base == Lod0.list_start + i * 3
             i0 == nod.indices[base + 1] + vtx_offset
             i1 == nod.indices[base + 2] + vtx_offset
             i2 == nod.indices[base + 3] + vtx_offset
         IN  /\ pc' = "list"
             /\ UNCHANGED << vtx_offset, mg >>
             /\ IF OutOfRange(i0, i1, i2, total)
                THEN /\ i' = SkipTo(i, Lod0.list_count \div 3)
                     /\ UNCHANGED << all_triangles, group_triangles >>
                ELSE /\ i' = i + 1
                     /\ all_triangles' = all_triangles \o << i0, i1, i2 >>
                     /\ group_triangles' =
                            ExtendBucket(group_triangles, MatId, << i0, i1, i2 >>)
    /\ UNCHANGED << nod_files, stats, data, nod, mesh, total, flat_positions,
                    v1, v2, v3, n >>
    /\ UNCHANGED stubvars

\* if len(all_triangles) < 3
NoTriangles(tris) == Len(tris) < 3

\* after the last group with no triangle: None, extract_fail is counted
ExtractNoTriangles ==
    /\ pc = "group"
    /\ mg > Len(nod.mesh_groups)
    /\ NoTriangles(all_triangles)
    /\ mesh' = NoneResult
    /\ ReturnToMain("extract_fail")
    /\ UNCHANGED << data, nod, locals >>
    /\ UNCHANGED stubvars

\* the mesh extract_mesh returns
MeshOf(flat, tris, buckets, nd) ==
    [tag            |-> "mesh",
     positions      |-> flat,
     normals        |-> FlatNormals(nd.all_vertices),
     uvs            |-> FlatUvs(nd.all_vertices),
     indices        |-> tris,
     group_triangles |-> buckets,
     vertex_count   |-> Len(flat),
     triangle_count |-> Len(tris) \div 3,
     shaders        |-> nd.shaders,
     mesh_groups    |-> Len(nd.mesh_groups)]

\* after the last group: the mesh is returned, written out, ok is counted
ExtractReturn ==
    /\ pc = "group"
    /\ mg > Len(nod.mesh_groups)
    /\ ~NoTriangles(all_triangles)
    /\ mesh' = MeshOf(flat_positions, all_triangles, group_triangles, nod)
    /\ ReturnToMain("ok")
    /\ UNCHANGED << data, nod, locals >>
    /\ UNCHANGED stubvars

Next ==
    \/ ConvertReadError
    \/ ConvertParseFail
    \/ ConvertParseRaise
    \/ ConvertParseOk
    \/ ExtractNothing
    \/ ExtractFlatten
    \/ GroupBegin
    \/ StripStep
    \/ ListStep
    \/ ExtractNoTriangles
    \/ ExtractReturn

Spec == Init /\ [][Next]_vars

(***************************************************************************)
(* main over a directory of MaxFiles files, each one of a few kinds: a     *)
(* container that converts, one of another version, one that declares five *)
(* vertex groups, one without indices, one whose only window repeats an    *)
(* index, one whose read fails.                                            *)
(***************************************************************************)
BatchFiles ==
    {Readable(FileBytes(f)) :
        f \in {Layout(<< << 0, 4 >> >>, << 0, 1, 2, 3 >>,
                      << Group(0, 4, 0, 4, NoLod) >>),
               [Layout(<< << 0, 3 >> >>, << 0, 1, 2 >>,
                       << Group(0, 3, 0, 3, NoLod) >>) EXCEPT !.version = 9],
               [Layout(<< << 0, 3 >> >>, << 0, 1, 2 >>,
                       << Group(0, 3, 0, 3, NoLod) >>)
                   EXCEPT !.vert_group_count = HEADER_SLOTS + 1],
               Layout(<< << 0, 3 >> >>, << >>, << Group(0, 0, 0, 3, NoLod) >>),
               Layout(<< << 0, 3 >> >>, << 0, 0, 1 >>,
                      << Group(0, 3, 0, 3, NoLod) >>)}}
    \cup {Unreadable}

InitBatch ==
    /\ nod_files \in [1..MaxFiles -> BatchFiles]
    /\ InitCall

SpecBatch == InitBatch /\ [][Next]_vars

(***************************************************************************)
(* main of build_model_stubs.py, one file at a time.                       *)
(***************************************************************************)
GLTF_STUB_EXTS == {".nod", ".noc", ".nmb", ".nnb", ".xvu", ".npd"}

GLTF_PARSE_EXTS == {".nod", ".noc"}

\* a file of the source folder: its extension and its bytes
SourceFile(extension, bytes) == [ext |-> extension, raw |-> bytes]

\* the current file of main's loop
ext == Head(files).ext

raw == Head(files).raw

\* lines 647 and 649; the hints are read from the first 4096 bytes, which
\* hold the offsets they are read at
bbox == parse_bbox_guess(raw)

count_hint == candidate_count_hint(raw)

\* line 677
WritesGltf == write_gltf /\ ext \in GLTF_STUB_EXTS

\* lines 690-696: the arguments of parse_index_buffer
stream_offset == parser_meta.best.offset

stream_stride == parser_meta.best.stride

stream_available == parser_meta.best.available

vertex_span_count ==
    Max(stream_available,
        IF orig_indices # << >> THEN orig_indices[Len(orig_indices)] + 1
        ELSE Len(orig_indices))

\* the record main keeps of a file (lines 686, 700, 705 and 710-722): the
\* statuses of the two searches, the mode, and the counts
Record(status, index_status, mode, point_count, triangle_index_count) ==
    [ext |-> ext, status |-> status, index_status |-> index_status,
     mode |-> mode, point_count |-> point_count,
     triangle_index_count |-> triangle_index_count]

\* lines 727-728 and the next turn of the loop
NextFile(rec) ==
    /\ records' = Append(records, rec)
    /\ files' = Tail(files)
    /\ stub_pc' = "files"

\* no glTF is written for the file (line 677 is false)
SkipGltf ==
    /\ stub_pc = "files"
    /\ files # << >>
    /\ ~WritesGltf
    /\ NextFile(Record("none", "none", "none", 0, 0))
    /\ UNCHANGED << write_gltf, max_points_per_mesh, gltf_triangle_count,
                    gltf_pointcloud_count, gltf_fallback_stub_count,
                    callvars, scanvars >>
    /\ UNCHANGED nodvars

\* lines 681-682 with an extension that is not parsed: gltf stays None
NotAttempted ==
    /\ stub_pc = "files"
    /\ files # << >>
    /\ WritesGltf
    /\ ext \notin GLTF_PARSE_EXTS
    /\ positions' = << >>
    /\ orig_indices' = << >>
    /\ parser_meta' = [NoMeta EXCEPT !.status = "not_attempted"]
    /\ idx_source' = << >>
    /\ idx_meta' = NoIndexMeta
    /\ tri_indices' = << >>
    /\ stub_pc' = "fallback"
    /\ UNCHANGED << mainvars, scanvars >>
    /\ UNCHANGED nodvars

\* lines 683-687: parse_vertex_cloud is called; with positions the index
\* search is next, without them the fallback
VertexSearch ==
    /\ stub_pc = "files"
    /\ files # << >>
    /\ WritesGltf
    /\ ext \in GLTF_PARSE_EXTS
    /\ \E found \in {parse_vertex_cloud(raw, bbox,
                                         Max(MIN_VERTICES,
                                             max_points_per_mesh),
                                         count_hint)} :
           /\ positions' = found.positions
           /\ orig_indices' = found.orig_indices
           /\ parser_meta' = found.parser_meta
           /\ stub_pc' = IF found.positions # << >> THEN "index_search"
                         ELSE "fallback"
    /\ idx_source' = << >>
    /\ idx_meta' = NoIndexMeta
    /\ tri_indices' = << >>
    /\ UNCHANGED << mainvars, scanvars >>
    /\ UNCHANGED nodvars

\* lines 280-309: parse_index_buffer up to its loops
IndexBegin ==
    /\ stub_pc = "index_search"
    /\ IF vertex_span_count < MIN_VERTICES
       THEN /\ idx_meta' = [NoIndexMeta EXCEPT
                               !.status = "vertex_span_too_small"]
            /\ stub_pc' = "assemble"
            /\ UNCHANGED scanvars
       ELSE \E offsets \in {CandidateOffsets(raw, vertex_span_count,
                                              stream_offset, stream_stride,
                                              stream_available,
                                              count_hint)} :
                /\ candidate_offsets' = offsets
                /\ off_k' = 1
                /\ idx_k' = 1
                /\ best' = NoneResult
                /\ best_indices' = << >>
                /\ timed_out' = FALSE
                /\ candidate_checks' = 0
                /\ deadline_elapsed' = FALSE
                /\ stub_pc' = IF offsets = << >> THEN "idx_end"
                              ELSE "idx_check"
                /\ UNCHANGED idx_meta
    /\ UNCHANGED << mainvars, positions, orig_indices, parser_meta,
                    idx_source, tri_indices >>
    /\ UNCHANGED nodvars

\* time.monotonic() passes scan_deadline while parse_index_buffer runs
ClockPasses ==
    /\ stub_pc \in {"idx_check", "idx_triples"}
    /\ ~deadline_elapsed
    /\ deadline_elapsed' = TRUE
    /\ UNCHANGED << mainvars, stub_pc, callvars, candidate_offsets, off_k,
                    idx_k, best, best_indices, timed_out, candidate_checks >>
    /\ UNCHANGED nodvars

\* the end of one turn of the inner loop that was not left by a break:
\* the next index size, or after the last one line 392 and the next offset
NextCandidate(new_best, checks) ==
    IF idx_k < Len(INDEX_SIZES)
    THEN /\ idx_k' = idx_k + 1
         /\ off_k' = off_k
         /\ stub_pc' = "idx_check"
    ELSE IF HighConfidence(new_best, checks)
    THEN /\ stub_pc' = "idx_end"
         /\ UNCHANGED << off_k, idx_k >>
    ELSE /\ off_k' = off_k + 1
         /\ idx_k' = 1
         /\ stub_pc' = IF off_k + 1 > Len(candidate_offsets) THEN "idx_end"
                       ELSE "idx_check"

\* lines 313-323: the head of a candidate's evaluation
IndexCheck ==
    /\ stub_pc = "idx_check"
    /\ candidate_checks' = candidate_checks + 1
    /\ IF deadline_elapsed
       THEN /\ timed_out' = TRUE
            /\ stub_pc' = "idx_end"
            /\ UNCHANGED << off_k, idx_k >>
       ELSE IF TriCountScan(raw, candidate_offsets[off_k],
                            INDEX_SIZES[idx_k], vertex_span_count, MAX_TRIS)
                   < MIN_TRIANGLES
       THEN /\ NextCandidate(best, candidate_checks + 1)
            /\ UNCHANGED timed_out
       ELSE /\ stub_pc' = "idx_triples"
            /\ UNCHANGED << off_k, idx_k, timed_out >>
    /\ UNCHANGED << mainvars, callvars, candidate_offsets, best,
                    best_indices, deadline_elapsed >>
    /\ UNCHANGED nodvars

\* lines 325-389: the triple loop of the candidate and what follows it
IndexTriples ==
    /\ stub_pc = "idx_triples"
    /\ \E found \in {EvaluateCandidate(raw, candidate_offsets[off_k],
                                        INDEX_SIZES[idx_k],
                                        vertex_span_count, MAX_TRIS)} :
           IF found.tag = "None"
           THEN /\ NextCandidate(best, candidate_checks)
                /\ UNCHANGED << best, best_indices >>
           ELSE LET better == Better(found.cand, best)
                    new_best == IF better THEN found.cand ELSE best
                IN  /\ best' = new_best
                    /\ best_indices' = IF better THEN found.vals
                                       ELSE best_indices
                    /\ IF HighConfidence(new_best, candidate_checks)
                       THEN /\ stub_pc' = "idx_end"
                            /\ UNCHANGED << off_k, idx_k >>
                       ELSE NextCandidate(new_best, candidate_checks)
    /\ UNCHANGED << mainvars, callvars, candidate_offsets, timed_out,
                    candidate_checks, deadline_elapsed >>
    /\ UNCHANGED nodvars

\* lines 395-404 and 688-700: parse_index_buffer returns to main
IndexReturn ==
    /\ stub_pc = "idx_end"
    /\ \E result \in {IndexResult(best, best_indices, timed_out)} :
           /\ idx_source' = result.indices
           /\ idx_meta' = [status |-> result.status,
                           scan_note |-> result.scan_note,
                           best |-> result.best]
    /\ stub_pc' = "assemble"
    /\ UNCHANGED << mainvars, positions, orig_indices, parser_meta,
                    tri_indices, scanvars >>
    /\ UNCHANGED nodvars

\* any triangle at all would do
AnyTriangles(tris) == tris # << >>

\* line 708: the triangles are enough for a triangle mesh
EnoughTriangles(tris) == tris # << >> /\ Len(tris) >= MIN_TRI_INDICES

\* lines 702-717 and 724-728: remap, then the triangle or the point glTF
Assemble ==
    /\ stub_pc = "assemble"
    /\ \E tris \in {IF idx_source # << >>
                     THEN remap_triangles_to_compact(idx_source,
                                                     orig_indices)
                     ELSE << >>} :
           /\ tri_indices' = tris
           /\ IF EnoughTriangles(tris)
              THEN /\ gltf_triangle_count' = gltf_triangle_count + 1
                   /\ NextFile(Record(parser_meta.status, idx_meta.status,
                                       "triangle_index", Len(positions),
                                       Len(tris)))
                   /\ UNCHANGED gltf_pointcloud_count
              ELSE /\ gltf_pointcloud_count' = gltf_pointcloud_count + 1
                   /\ NextFile(Record(parser_meta.status, idx_meta.status,
                                       "pointcloud", Len(positions),
                                       Len(tris)))
                   /\ UNCHANGED gltf_triangle_count
    /\ UNCHANGED << write_gltf, max_points_per_mesh,
                    gltf_fallback_stub_count, positions, orig_indices,
                    parser_meta, idx_source, idx_meta, scanvars >>
    /\ UNCHANGED nodvars

\* lines 719-728: gltf is None, the stub is written
FallbackStub ==
    /\ stub_pc = "fallback"
    /\ gltf_fallback_stub_count' = gltf_fallback_stub_count + 1
    /\ NextFile(Record(parser_meta.status, "none", "fallback_stub", 0, 0))
    /\ UNCHANGED << write_gltf, max_points_per_mesh, gltf_triangle_count,
                    gltf_pointcloud_count, callvars, scanvars >>
    /\ UNCHANGED nodvars

NextStubs ==
    \/ SkipGltf
    \/ NotAttempted
    \/ VertexSearch
    \/ IndexBegin
    \/ ClockPasses
    \/ IndexCheck
    \/ IndexTriples
    \/ IndexReturn
    \/ Assemble
    \/ FallbackStub

\* the structured decoder is not running
NodIdle ==
    /\ nod_files = << >>
    /\ stats = NoStats
    /\ pc = "main"
    /\ data = << >>
    /\ nod = NoneResult
    /\ mesh = NoneResult
    /\ FreshLocals

\* main before its loop
InitMain ==
    /\ NodIdle
    /\ FreshMain
    /\ stub_pc = "files"
    /\ FreshCalls
    /\ FreshScan

(***************************************************************************)
(* The files of the source folder the heuristic decoders are run on: a     *)
(* header with the box and the count hint, a stream of points behind it    *)
(* and the index values behind the stream.                                 *)
(***************************************************************************)
\* the box from (1, 1, 1) to (4, 4, 4): the origin lies outside it
Box2 == << 1, 1, 1, 4, 4, 4 >>

\* points with the records numbered in nans (from 0) not finite
WithNaN(points, nans) ==
    [k \in 1..Len(points) |-> IF (k - 1) \in nans THEN NaNPoint ELSE points[k]]

\* points with the last count records replaced by the point p
Blanked(points, count, p) ==
    [k \in 1..Len(points) |-> IF k > Len(points) - count THEN p ELSE points[k]]

\* count triples that repeat an index, count triples with an index of 99
DegenerateTriples(count) ==
    [k \in 1..(3 * count) |-> IF k % 3 = 0 THEN 2 ELSE 1]

InvalidTriples(count) ==
    [k \in 1..(3 * count) |-> IF k % 3 = 0 THEN 99 ELSE k % 3]

\* a .nod file with its stream at 0x40
Small(box, hint, stride, points, index_size, indices) ==
    SourceFile(".nod",
               StubBytes(StubLayout(box, hint, SWEEP_START, stride, points,
                                    index_size, indices, 0)))

\* the synthetic buffer: 100 points of stride 32 at 0x80 inside Box
Synthetic(hint, points, tail) ==
    SourceFile(".nod",
               StubBytes(StubLayout(Box, hint, 128, 32, points, 2, << >>,
                                    tail)))

\* the largest number of blank records and of degenerate triples of a file
MaxBlank == 16

MaxDegenerate == 25

\* 16 points of stride 12 of which the last ones are at the origin or not
\* finite: 256 bytes, the smallest size parse_vertex_cloud scans
BlankFiles ==
    {Small(box, 0, 12, Blanked(Points(16), count, p), 2, << >>) :
        box \in {Box2, NoBox}, count \in 0..MaxBlank, p \in {Origin, NaNPoint}}

\* 12 points of stride 16 with a count hint and one record not finite
HintFiles ==
    {Small(Box2, hint, 16, WithNaN(Points(12), nans), 2, << >>) :
        hint \in {4, 8, 9, 12}, nans \in {{}, {0}, {1}}}

\* the index values behind a stream: 24 good triangles with degenerate or
\* invalid ones behind or before them, and 23 good triangles
IndexLists ==
    {Triangles(24, 16) \o DegenerateTriples(count) :
        count \in {0} \cup (23..MaxDegenerate)}
        \cup {Triangles(23, 16),
              Triangles(24, 16) \o InvalidTriples(30),
              DegenerateTriples(25) \o Triangles(24, 16)}

\* 16 points of stride 12 and index values of either width
IndexFiles ==
    {Small(NoBox, 16, 12, Points(16), index_size, indices) :
        index_size \in {2, 4}, indices \in IndexLists}

\* 16 points of stride 16 of which the count hint keeps the first ones, and
\* 24 triangles over the span vertices from vertex first on
RemapFile(hint, first, span) ==
    Small(NoBox, hint, 16, Points(16), 2,
          [k \in 1..72 |-> first + Triangles(24, span)[k]])

RemapFiles ==
    {RemapFile(hint, window[1], window[2]) :
        hint \in {8, 11, 12}, window \in {<< 0, 16 >>, << 8, 8 >>, << 8, 12 >>}}

\* the synthetic buffer as it is, with the count hint and zero bytes behind
\* the stream, with zero bytes behind the stream, and with a point at the
\* origin
SyntheticFiles ==
    {Synthetic(0, Points(100), 0), Synthetic(100, Points(100), 64),
     Synthetic(0, Points(100), 64),
     Synthetic(0, [Points(100) EXCEPT ![2] = Origin], 0)}

\* 240 good triangles: enough for the scan to stop early
HighFile == Small(NoBox, 16, 12, Points(16), 2, Triangles(240, 16))

\* 80 points before the 240 triangles: the first candidate good enough for
\* the early stop comes after more than 96 checks
HighLateFile == Small(NoBox, 80, 12, Points(80), 2, Triangles(240, 16))

\* 24 points of stride 16 from 0x40 on: candidates at 0x80 and at 0x40
\* read nothing but points and score the same
TieFile == Small(NoBox, 0, 16, Points(24), 2, << >>)

\* 144 good triangles, 176 degenerate ones and 24 good ones: the candidate
\* at the head of the list scores highest with less than half its triples
\* valid, the candidate at the last 24 triangles has all its triples valid
LowTopFile ==
    Small(NoBox, 16, 12, Points(16), 2,
          Triangles(144, 16) \o DegenerateTriples(176) \o Triangles(24, 16))

\* twice 24 good triangles with 13 invalid triples behind them: the two
\* candidates at the heads of the runs score the same
TwinFile ==
    Small(NoBox, 16, 12, Points(16), 2,
          Triangles(24, 16) \o InvalidTriples(16) \o Triangles(24, 16)
              \o InvalidTriples(13))

\* buffers of one byte value, and a buffer of float triples not finite
EdgeFiles ==
    {SourceFile(".nod", Zeros(255)), SourceFile(".noc", Filled(256, 255)),
     SourceFile(".nod", StreamBytes([k \in 1..22 |-> NaNPoint], 12))}

\* a mesh-like file that is not parsed and a file that gets no glTF
OtherFiles ==
    {SourceFile(".nmb", Zeros(256)), SourceFile(".nad", Zeros(256))}

\* the files the vertex scan is studied on, and those the index scan is
VertexFiles ==
    BlankFiles \cup HintFiles \cup SyntheticFiles \cup EdgeFiles
        \cup OtherFiles \cup {TieFile}

IndexedFiles ==
    IndexFiles \cup RemapFiles
        \cup {HighFile, HighLateFile, LowTopFile, TwinFile} \cup EdgeFiles
        \cup OtherFiles

\* main with --write-gltf and the default --max-points-per-mesh over a
\* folder of the one file f
InitFile(f) ==
    /\ InitMain
    /\ files = << f >>
    /\ write_gltf = TRUE
    /\ max_points_per_mesh = 1500

\* --max-points-per-mesh: the default, and for the small streams also a
\* value below their length
MaxPointsOf(f) == IF f \in BlankFiles \cup HintFiles THEN {10, 1500} ELSE {1500}

InitVertex ==
    \E f \in VertexFiles :
        \E max_points \in MaxPointsOf(f) :
            /\ InitMain
            /\ files = << f >>
            /\ write_gltf = TRUE
            /\ max_points_per_mesh = max_points

InitIndex == \E f \in IndexedFiles : InitFile(f)

SpecVertex == InitVertex /\ [][NextStubs]_vars

SpecIndex == InitIndex /\ [][NextStubs]_vars

\* the largest stream index and the longest index list remap is called on
MaxOrig == 3

MaxRemapLen == 6

\* the members of a set of stream indices in increasing order, as
\* parse_vertex_cloud appends them (line 249)
Ascending(S) ==
    CHOOSE q \in [1..Cardinality(S) -> S] :
        \A j \in 1..Cardinality(S) : \A k \in 1..Cardinality(S) :
            j < k => q[j] < q[k]

\* remap_triangles_to_compact is about to be called on an index list and
\* the stream indices of the accepted vertices
InitRemap ==
    /\ NodIdle
    /\ FreshMain
    /\ FreshScan
    /\ files = << >>
    /\ write_gltf = TRUE
    /\ max_points_per_mesh = 1500
    /\ stub_pc = "remap"
    /\ positions = << >>
    /\ parser_meta = NoMeta
    /\ idx_meta = NoIndexMeta
    /\ tri_indices = << >>
    /\ orig_indices \in {Ascending(S) : S \in SUBSET (0..MaxOrig)}
    /\ idx_source \in UNION {[1..len -> 0..MaxOrig] : len \in 0..MaxRemapLen}

\* lines 407-422: the call and its return
RemapCall ==
    /\ stub_pc = "remap"
    /\ tri_indices' = remap_triangles_to_compact(idx_source, orig_indices)
    /\ stub_pc' = "remapped"
    /\ UNCHANGED << mainvars, positions, orig_indices, parser_meta,
                    idx_source, idx_meta, scanvars >>
    /\ UNCHANGED nodvars

NextRemap == RemapCall

SpecRemap == InitRemap /\ [][NextRemap]_vars

\* the longest folder of a batch
MaxStubFiles == 2

\* small files of every outcome: no glTF, not parsed, no candidate good
\* enough, triangles, and points whose triangles the remap drops
LightFiles ==
    {SourceFile(".nad", Zeros(256)), SourceFile(".nmb", Zeros(256)),
     SourceFile(".nod", Zeros(256)),
     Small(NoBox, 16, 12, Points(16), 2, Triangles(24, 16)),
     RemapFile(11, 8, 12)}

\* the folders of up to MaxStubFiles light files, in any order of names
\* a folder holds files of different contents, in any order
StubFolders ==
    UNION {{q \in [1..count -> LightFiles] :
               \A j \in 1..count : \A k \in 1..count : j # k => q[j] # q[k]} :
           count \in 1..MaxStubFiles}

\* main over a folder, with or without --write-gltf
InitStubs ==
    /\ InitMain
    /\ files \in StubFolders
    /\ write_gltf \in BOOLEAN
    /\ max_points_per_mesh = 1500

SpecStubs == InitStubs /\ [][NextStubs]_vars

(***************************************************************************)
(* One candidate at a time: the body of parse_vertex_cloud's loops (lines  *)
(* 169-214) for one (offset, stride) of a file, and the body of            *)
(* parse_index_buffer's loops (lines 317-381) for one (offset, width) of a *)
(* file and a vertex span.  off_k is the place of the offset in            *)
(* candidate_offsets, idx_k the place of the stride or width in its list,  *)
(* best takes the candidate's record.                                      *)
(***************************************************************************)
\* the triangles behind the stream of the long files
MaxWorkTriples == 6010

\* the short streams with and without a count hint, the synthetic buffer
\* with a hint of 100 and of 300, and with none
SampleFiles ==
    {Small(Box2, hint, 16, Points(12), 2, << >>) : hint \in {0, 4, 8, 12, 30}}
        \cup {Synthetic(hint, Points(100), 0) : hint \in {0, 100, 300}}

\* 16 points and MaxWorkTriples triangles of either width
LongFiles ==
    {Small(NoBox, 16, 12, Points(16), index_size,
           Triangles(MaxWorkTriples, 16)) : index_size \in {2, 4}}

\* where the index values of a long file start
LongStart == SWEEP_START + 16 * 12

\* offsets into a long file of the given width: the start of the index
\* values, one triple further, and the last 20 to 40 triples
LongOffsets(index_size) ==
    {LongStart + 3 * index_size * t :
        t \in {0, 1} \cup ((MaxWorkTriples - 40)..(MaxWorkTriples - 20))}

\* a stream with the given number of records
StreamOf(span) ==
    [status |-> "ok", accepted_vertices |-> 16,
     best |-> [tag |-> "cand", offset |-> SWEEP_START, stride |-> 12,
               available |-> span]]

\* nothing but the candidate is looked at
InitWork ==
    /\ NodIdle
    /\ FreshMain
    /\ write_gltf = TRUE
    /\ max_points_per_mesh = 1500
    /\ positions = << >>
    /\ orig_indices = << >>
    /\ idx_source = << >>
    /\ idx_meta = NoIndexMeta
    /\ tri_indices = << >>
    /\ best = NoneResult
    /\ best_indices = << >>
    /\ timed_out = FALSE
    /\ candidate_checks = 0
    /\ deadline_elapsed = FALSE

\* a candidate of the vertex scan: one of the first 12 offsets of the
\* file's list, any stride
InitSample ==
    /\ InitWork
    /\ \E f \in SampleFiles :
           /\ files = << f >>
           /\ candidate_offsets = VertexOffsets(f.raw)
    /\ off_k \in 1..12
    /\ idx_k \in 1..Len(STRIDES)
    /\ parser_meta = NoMeta
    /\ stub_pc = "candidate"

\* a candidate of the index scan of a long file, for a span below and one
\* from LARGE_SPAN on
InitEvaluate ==
    /\ InitWork
    /\ \E f \in LongFiles : \E index_size \in {2, 4} :
           \E at \in LongOffsets(index_size) :
               /\ files = << f >>
               /\ candidate_offsets = << at >>
    /\ off_k = 1
    /\ idx_k \in 1..Len(INDEX_SIZES)
    /\ parser_meta \in {StreamOf(16), StreamOf(LARGE_SPAN)}
    /\ stub_pc = "evaluate"

\* lines 169-214 for the candidate
CandidateCall ==
    /\ stub_pc = "candidate"
    /\ best' = Candidate(raw, bbox, count_hint, candidate_offsets[off_k],
                         STRIDES[idx_k])
    /\ stub_pc' = "scored"
    /\ UNCHANGED << mainvars, callvars, candidate_offsets, off_k, idx_k,
                    best_indices, timed_out, candidate_checks,
                    deadline_elapsed >>
    /\ UNCHANGED nodvars

\* lines 317-381 for the candidate
EvaluateCall ==
    /\ stub_pc = "evaluate"
    /\ \E found \in {EvaluateCandidate(raw, candidate_offsets[off_k],
                                        INDEX_SIZES[idx_k],
                                        vertex_span_count, MAX_TRIS)} :
           /\ best' = IF found.tag = "None" THEN NoneResult ELSE found.cand
           /\ best_indices' = IF found.tag = "None" THEN << >>
                              ELSE found.vals
    /\ stub_pc' = "evaluated"
    /\ UNCHANGED << mainvars, callvars, candidate_offsets, off_k, idx_k,
                    timed_out, candidate_checks, deadline_elapsed >>
    /\ UNCHANGED nodvars

NextWork == CandidateCall \/ EvaluateCall

SpecWork == (InitSample \/ InitEvaluate) /\ [][NextWork]_vars


(***************************************************************************)
(* Properties.                                                             *)
(***************************************************************************)
\* a call of convert_nod_file that got past parse_nod has returned to main
Returned == pc = "main" /\ nod.tag = "nod"

\* the parsed container has exactly one mesh group, with these LOD0 counts
OneGroup(strip_count, list_count) ==
    /\ Len(nod.mesh_groups) = 1
    /\ nod.mesh_groups[1].lods[1].strip_count = strip_count
    /\ nod.mesh_groups[1].lods[1].list_count = list_count

\* one vertex group of type 0 with 4 vertices, one mesh group of material 0
\* whose LOD0 is a strip of 4, index buffer [0,1,2,3]
C1_Case ==
    /\ Returned
    /\ nod.vert_group_count = 1
    /\ nod.vtx_groups[1] = << 0, 4 >>
    /\ Len(nod.all_vertices[1]) = 4
    /\ nod.indices = << 0, 1, 2, 3 >>
    /\ OneGroup(4, 0)
    /\ nod.mesh_groups[1].material_id = 0

\* C1: the container of C1_Case decodes to exactly the two triangles [0,1,2]
\* and [1,3,2] (alternating winding), with vertex_count 4 and triangle_count 2.
C1_EndToEnd ==
    C1_Case =>
        /\ mesh.tag = "mesh"
        /\ mesh.indices = << 0, 1, 2, 1, 3, 2 >>
        /\ mesh.vertex_count = 4
        /\ mesh.triangle_count = 2

\* C1 witness: the example container has been decoded and a mesh returned
C1_Witness == C1_Case /\ mesh.tag = "mesh"

\* the 9-index run as the only strip of a single group over at least 5 vertices
C2_Case ==
    /\ Returned
    /\ nod.indices = << 0, 1, 2, 1, 3, 2, 2, 3, 4 >>
    /\ OneGroup(9, 0)
    /\ total >= 5

\* C2 as stated: the strip [0,1,2,1,3,2,2,3,4] emits exactly 3 triangles.
C2_ThreeTriangles ==
    C2_Case => (mesh.tag = "mesh" /\ mesh.triangle_count = 3)

\* C2 amended: the strip [0,1,2,1,3,2,2,3,4] emits exactly 4 triangles, those of
\* its sliding windows 0, 2, 3 and 6 (windows 1, 4 and 5 repeat an index and emit
\* nothing); only the triangle of the odd window 3 has its winding swapped:
\* [0,1,2], [2,1,3], [1,2,3], [2,3,4].
C2_FourTriangles ==
    C2_Case =>
        /\ mesh.tag = "mesh"
        /\ mesh.triangle_count = 4
        /\ mesh.indices = << 0, 1, 2, 2, 1, 3, 1, 2, 3, 2, 3, 4 >>

\* C2 witness: the 9-index strip has been triangulated and a mesh returned
C2_Witness == C2_Case /\ mesh.tag = "mesh" /\ Len(mesh.indices) > 3


\* a complete window of the current strip is about to be processed: the loop
\* stands at the third or a later index of the strip
AtWindow == pc = "strip" /\ ~StripOver /\ i >= Lod0.strip_start + 2

\* its position in the strip, 0 for the first complete window
WindowNumber == i - Lod0.strip_start - 2

\* C3: the winding flag is the parity of the window's position in the strip (0
\* at the first complete window of each group's strip, flipped by every window,
\* emitted or not); window k is emitted, if at all, as [a,b,c] for even k and as
\* [a,c,b] for odd k; a window with two equal raw indices emits nothing.
C3_WindingByPosition ==
    [][AtWindow =>
         LET k == WindowNumber
             a == nod.indices[i - 1] + vtx_offset
             b == nod.indices[i] + vtx_offset
             c == nod.indices[i + 1] + vtx_offset
             tri == IF k % 2 = 0 THEN << a, b, c >> ELSE << a, c, b >>
         IN  /\ n = k % 2
             /\ n' = (k + 1) % 2
             /\ \/ all_triangles' = all_triangles
                \/ all_triangles' = all_triangles \o tri
             /\ (a = b \/ b = c \/ a = c) => all_triangles' = all_triangles
             /\ group_triangles'[MatId]
                    \in {group_triangles[MatId], group_triangles[MatId] \o tri}
             /\ Len(group_triangles'[MatId]) - Len(group_triangles[MatId])
                    = Len(all_triangles') - Len(all_triangles)]_vars

\* C3 witness: the first window of a strip was rejected for a repeated index and
\* the second was emitted with swapped winding
C3_Witness ==
    /\ pc = "strip"
    /\ mg = 1
    /\ i = Lod0.strip_start + 4
    /\ nod.indices[1] = nod.indices[2]
    /\ all_triangles = << nod.indices[2], nod.indices[4], nod.indices[3] >>

\* the triples of a flat index list
TriplesOf(tris) == 0..((Len(tris) \div 3) - 1)

\* every triple of the list has three different indices
AllDistinct(tris) ==
    \A t \in TriplesOf(tris) :
        /\ tris[3 * t + 1] # tris[3 * t + 2]
        /\ tris[3 * t + 2] # tris[3 * t + 3]
        /\ tris[3 * t + 1] # tris[3 * t + 3]

\* C4: every triangle of a returned mesh, in the global list and in every
\* per-material bucket, has three pairwise-distinct indices.
C4_NoDegenerateOutput ==
    mesh.tag = "mesh" =>
        /\ AllDistinct(mesh.indices)
        /\ \A m \in DOMAIN mesh.group_triangles :
               AllDistinct(mesh.group_triangles[m])

\* an index list of whole triples over 0..count-1
WellFormed(tris, count) ==
    /\ Len(tris) % 3 = 0
    /\ \A j \in 1..Len(tris) : tris[j] >= 0 /\ tris[j] < count

\* C5: in every returned mesh each index of the global list and of every bucket
\* is below vertex_count, the lists hold whole triples, triangle_count is
\* len(indices)/3 and at least 1, and vertex_count is at least 3.
C5_IndicesInRange ==
    mesh.tag = "mesh" =>
        /\ WellFormed(mesh.indices, mesh.vertex_count)
        /\ \A m \in DOMAIN mesh.group_triangles :
               WellFormed(mesh.group_triangles[m], mesh.vertex_count)
        /\ mesh.triangle_count * 3 = Len(mesh.indices)
        /\ mesh.triangle_count >= 1
        /\ mesh.vertex_count >= 3
        /\ mesh.vertex_count = Len(mesh.positions)

\* C5 witness: a mesh was returned from an index buffer that holds an index
\* beyond the vertices
C5_Witness ==
    /\ mesh.tag = "mesh"
    /\ \E j \in 1..Len(nod.indices) : nod.indices[j] >= mesh.vertex_count

RECURSIVE DeclaredVertexBytes(_, _)
\* bytes of the records the first count header slots declare
DeclaredVertexBytes(vtx_groups, count) ==
    IF count = 0 THEN 0
    ELSE DeclaredVertexBytes(vtx_groups, count - 1)
            + VERTEX_STRIDES[vtx_groups[count][1]] * vtx_groups[count][2]

\* the end of the last byte range the header of the parsed container declares
DeclaredEnd ==
    HEADER_SIZE + SHADER_NAME_SIZE * nod.shader_count
        + BONE_SIZE * nod.bone_count
        + DeclaredVertexBytes(nod.vtx_groups, nod.vert_group_count)
        + 2 * nod.index_count + MESH_GROUP_SIZE * nod.mesh_group_count

\* the buffer ends before a declared byte range
Truncated == nod.tag = "nod" /\ DeclaredEnd > Len(data)

\* C6: when the buffer ends before a declared byte range, the decode of the
\* file returns no mesh.
C6_TruncationFails == (Returned /\ Truncated) => mesh.tag # "mesh"

\* the conditions under which parse_nod is said to fail, read off the bytes
FailCondition ==
    \/ Len(data) < 92
    \/ ~(data[1] = 10 /\ data[2] = 0 /\ data[3] = 0 /\ data[4] = 0)
    \/ \E g \in 1..4 : g <= data[7] /\ data[36 + 8 * (g - 1) + 1] \notin {0, 1, 2, 3}

\* C7: parse_nod returns None exactly when the buffer is shorter than the
\* header, or the u32 at offset 0 is not 10, or one of the first
\* vert_group_count slots has a type outside {0,1,2,3}.
C7_ParseFailsExactly == (nod.tag = "None") <=> FailCondition

\* C7 witness: a buffer with a whole header of version 10 and two declared
\* vertex groups was refused for the type of its second slot alone, the
\* first slot's type being known
C7_Witness ==
    /\ Len(data) >= 92
    /\ data[1] = 10
    /\ nod.tag = "None"
    /\ data[7] = 2
    /\ data[37] \in {0, 1, 2, 3}
    /\ data[45] \notin {0, 1, 2, 3}

RECURSIVE GroupOffset(_)
\* the sum of the vertex_count fields of the descriptors before group g
GroupOffset(g) ==
    IF g = 1 THEN 0 ELSE GroupOffset(g - 1) + nod.mesh_groups[g - 1].vertex_count

\* the positions of the complete windows of group g's strip that lie inside
\* the index buffer
Windows(g) ==
    LET l == nod.mesh_groups[g].lods[1]
        last == IF l.strip_start + l.strip_count < Len(nod.indices)
                THEN l.strip_start + l.strip_count ELSE Len(nod.indices)
    IN  {k \in 0..(last - l.strip_start - 3) : TRUE}

\* the raw indices of window k of group g's strip
WindowAt(g, k) ==
    LET s == nod.mesh_groups[g].lods[1].strip_start
    IN  << nod.indices[s + k + 1], nod.indices[s + k + 2], nod.indices[s + k + 3] >>

\* the triples of group g's list that lie inside the index buffer
Triples(g) ==
    LET l == nod.mesh_groups[g].lods[1]
    IN  {t \in 0..((l.list_count \div 3) - 1) :
            l.list_start + 3 * t + 2 < Len(nod.indices)}

\* the raw indices of triple t of group g's list
TripleAt(g, t) ==
    LET s == nod.mesh_groups[g].lods[1].list_start
    IN  << nod.indices[s + 3 * t + 1], nod.indices[s + 3 * t + 2],
           nod.indices[s + 3 * t + 3] >>

\* a raw triple of group g with a translated index beyond the vertices
Beyond(g, w) == \E j \in 1..3 : w[j] + GroupOffset(g) >= total

Repeats(w) == w[1] = w[2] \/ w[2] = w[3] \/ w[1] = w[3]

\* the triangles the groups up to g contribute when every window and triple
\* is judged on its own
RECURSIVE Contributed(_)
Contributed(g) ==
    IF g = 0 THEN 0
    ELSE Contributed(g - 1)
            + Cardinality({k \in Windows(g) :
                              ~Repeats(WindowAt(g, k)) /\ ~Beyond(g, WindowAt(g, k))})
            + Cardinality({t \in Triples(g) : ~Beyond(g, TripleAt(g, t))})

\* C8: a window or triple with a translated index beyond the vertices is
\* skipped and nothing else is: when extract_mesh is through, the triangle list
\* holds one triangle for every window of every group that neither repeats an
\* index nor reaches beyond the vertices and one for every list triple that
\* does not reach beyond them, whatever was skipped before it.
C8_SkipAndContinue ==
    (Returned /\ ~ReturnsEarly(nod)) =>
        /\ Len(all_triangles) = 3 * Contributed(Len(nod.mesh_groups))
        /\ \A g \in 1..Len(nod.mesh_groups) :
               /\ \A k \in Windows(g) :
                      Beyond(g, WindowAt(g, k)) =>
                          \A t \in TriplesOf(all_triangles) :
                              {all_triangles[3 * t + j] - GroupOffset(g) : j \in 1..3}
                                  # {WindowAt(g, k)[j] : j \in 1..3}
               /\ \A u \in Triples(g) :
                      Beyond(g, TripleAt(g, u)) =>
                          \A t \in TriplesOf(all_triangles) :
                              {all_triangles[3 * t + j] - GroupOffset(g) : j \in 1..3}
                                  # {TripleAt(g, u)[j] : j \in 1..3}

\* C8 witness: a mesh was returned whose first group skipped a window that
\* reaches beyond the vertices and emitted a later window of the same strip,
\* and whose second group contributed a triangle as well
C8_Witness ==
    /\ Returned
    /\ mesh.tag = "mesh"
    /\ Len(nod.mesh_groups) = 2
    /\ \E k \in Windows(1) : \E later \in Windows(1) :
           /\ k < later
           /\ Beyond(1, WindowAt(1, k))
           /\ ~Repeats(WindowAt(1, later)) /\ ~Beyond(1, WindowAt(1, later))
    /\ Contributed(2) > Contributed(1)

\* the four outcome counters
Counted == stats.ok + stats.parse_fail + stats.extract_fail + stats.errors

\* C9: every call of convert_nod_file returns to main's loop with exactly one
\* of the counters ok, parse_fail, extract_fail, errors incremented: nothing
\* raised leaves the loop, and at the head of the loop the counters add up to
\* the number of files taken.
C9_EveryFileCounted ==
    /\ pc # "crashed"
    /\ pc = "main" => Counted = MaxFiles - Len(nod_files)

\* ---------------------------------------------------------------------------
\* The heuristic path of build_model_stubs.py
\* ---------------------------------------------------------------------------

MODES == {"triangle_index", "pointcloud", "fallback_stub"}

\* the records of a mode
WithMode(mode) == {k \in 1..Len(records) : records[k].mode = mode}

\* the file of a record was written as glTF
WrittenAsGltf(rec) == write_gltf /\ rec.ext \in GLTF_STUB_EXTS

\* the searches a record's mode stands for
ModeOfSearches(rec) ==
    /\ WrittenAsGltf(rec) <=> rec.mode \in MODES
    /\ rec.mode = "triangle_index" <=>
           /\ WrittenAsGltf(rec)
           /\ rec.status = "ok"
           /\ rec.triangle_index_count >= MIN_TRI_INDICES
    /\ rec.mode = "triangle_index" => rec.index_status = "ok"
    /\ rec.mode = "pointcloud" <=>
           /\ WrittenAsGltf(rec)
           /\ rec.status = "ok"
           /\ rec.triangle_index_count < MIN_TRI_INDICES
    /\ rec.mode = "fallback_stub" <=>
           /\ WrittenAsGltf(rec)
           /\ rec.status # "ok"
    /\ rec.mode = "fallback_stub" /\ rec.ext \notin GLTF_PARSE_EXTS =>
           rec.status = "not_attempted"

\* every counter is the number of records of its mode
CountersMatch ==
    /\ gltf_triangle_count = Cardinality(WithMode("triangle_index"))
    /\ gltf_pointcloud_count = Cardinality(WithMode("pointcloud"))
    /\ gltf_fallback_stub_count = Cardinality(WithMode("fallback_stub"))

\* the index search runs on the positions of a successful vertex search
IndexSearchHasPositions ==
    stub_pc \in {"index_search", "idx_check", "idx_triples", "idx_end",
                 "assemble"} =>
        /\ positions # << >>
        /\ parser_meta.status = "ok"

\* a step leaves the records it finds as they are and adds at most the
\* record of the file it finishes
RecordsOnlyGrow ==
    /\ Len(records') + Len(files') = Len(records) + Len(files)
    /\ Len(records') \in {Len(records), Len(records) + 1}
    /\ \A k \in 1..Len(records) : records'[k] = records[k]
    /\ Len(records') > Len(records) => stub_pc \in {"files", "assemble",
                                                    "fallback"}

\* C11: every file written as glTF gets exactly one of the modes
\* triangle_index, pointcloud and fallback_stub and is counted in the counter
\* of that mode alone; the index search starts only on the positions of a
\* successful vertex search; triangle_index stands for a successful vertex
\* search and an index search with at least 3 triangles left by the remap,
\* pointcloud for a successful vertex search without them, fallback_stub for
\* a vertex search that failed or was not attempted; a record is written
\* once and never changed.
C11_OneModePerFile ==
    /\ [](/\ \A k \in 1..Len(records) : ModeOfSearches(records[k])
          /\ CountersMatch
          /\ IndexSearchHasPositions)
    /\ [][RecordsOnlyGrow]_vars

\* C11 witness: a folder is done with one file of triangles and one file
\* whose remap left fewer than 3 triangles and so became a point cloud
C11_Witness ==
    /\ files = << >>
    /\ WithMode("triangle_index") # {}
    /\ \E k \in WithMode("pointcloud") :
           /\ records[k].index_status = "ok"
           /\ records[k].triangle_index_count > 0

\* parse_vertex_cloud has just returned to main
VertexReturned ==
    /\ stub_pc \in {"index_search", "fallback"}
    /\ ext \in GLTF_PARSE_EXTS

\* parse_vertex_cloud has returned for the file at the head of the folder
Searched ==
    /\ files # << >>
    /\ WritesGltf
    /\ ext \in GLTF_PARSE_EXTS
    /\ stub_pc # "files"

\* every byte of the file is zero
ZeroBuffer == \A k \in 1..Len(raw) : raw[k] = 0

IsNaN(f) == ~isfinite(f) /\ Significand(f) # 8388608

\* every float a candidate can read is a NaN: the offsets are multiples of
\* 16 from SWEEP_START on and the strides are multiples of 4
NaNTriples ==
    \A k \in (SWEEP_START \div 4)..((Len(raw) \div 4) - 1) :
        IsNaN(read_f32(raw, 4 * k))

\* C12: parse_vertex_cloud on a buffer whose bytes are all zero, or whose
\* candidate float triples are all NaN, returns no positions, reports the
\* status no_candidate or too_small and no chosen candidate.
C12_BlankBufferNoCandidate ==
    (Searched /\ (ZeroBuffer \/ NaNTriples)) =>
        /\ positions = << >>
        /\ parser_meta.status \in {"no_candidate", "too_small"}
        /\ parser_meta.best = NoneResult

\* the synthetic buffers whose stream is the only thing a candidate reads
\* whole: the buffer ends with the stream, or the count hint is 100
SyntheticExact ==
    {Synthetic(0, Points(100), 0), Synthetic(100, Points(100), 64)}

\* the scanner selected (0x80, 32), status ok, 100 vertices
SelectedStream ==
    /\ parser_meta.status = "ok"
    /\ parser_meta.best.offset = 128
    /\ parser_meta.best.stride = 32
    /\ parser_meta.accepted_vertices = 100
    /\ Len(positions) = 100

RequiredScore == IF bbox = NoneResult THEN THRESHOLD_NO_HINT ELSE THRESHOLD_HINT

\* the records of the chosen stream that are finite and within range
Survivors ==
    {k \in 0..(parser_meta.best.available - 1) :
        FiniteInRange(read_3f(raw, parser_meta.best.offset
                                       + k * parser_meta.best.stride))}

\* C14: when parse_vertex_cloud returns ok, the chosen candidate's score is
\* at least 0.80 with a bounding box and at least 0.88 without, and at least
\* 8 vertices were accepted; a best score below the threshold gives
\* low_confidence, fewer than 8 surviving records give
\* insufficient_vertices, and both return no positions.
C14_ThresholdsHold ==
    VertexReturned =>
        /\ parser_meta.status = "ok" =>
               /\ parser_meta.best.score >= RequiredScore
               /\ parser_meta.accepted_vertices >= MIN_VERTICES
               /\ Len(positions) = parser_meta.accepted_vertices
        /\ parser_meta.best # NoneResult =>
               /\ parser_meta.best.score < RequiredScore
                      <=> parser_meta.status = "low_confidence"
               /\ (/\ parser_meta.best.score >= RequiredScore
                   /\ Cardinality(Survivors) < MIN_VERTICES)
                      => parser_meta.status = "insufficient_vertices"
        /\ parser_meta.status = "insufficient_vertices" =>
               parser_meta.accepted_vertices < MIN_VERTICES
        /\ parser_meta.status \in {"low_confidence", "insufficient_vertices"}
               => positions = << >>

\* C14 witness: a stream was accepted with a bounding box at a score that
\* is too low without one
C14_Witness ==
    /\ VertexReturned
    /\ parser_meta.status = "ok"
    /\ bbox # NoneResult
    /\ parser_meta.best.score < THRESHOLD_NO_HINT

\* the count hint when it is usable for the chosen stream, else the
\* stream's available records
HintOrAvailable ==
    IF count_hint # NoHint /\ HINT_MIN <= count_hint
           /\ count_hint <= parser_meta.best.available
    THEN count_hint ELSE parser_meta.best.available

\* min(available, count hint if usable else available, max_points)
ReReadBound ==
    Min(Min(parser_meta.best.available, HintOrAvailable),
        Max(MIN_VERTICES, max_points_per_mesh))

\* C15: on acceptance the re-read covers at most min(available, count hint
\* if usable else available, max_points) stream records from record 0 on:
\* every retained original stream index is below that bound.
C15_ReReadBounded ==
    (VertexReturned /\ parser_meta.status = "ok") =>
        \A k \in 1..Len(orig_indices) : orig_indices[k] < ReReadBound

\* parse_index_buffer has returned from its loops to main
IndexReturned ==
    /\ stub_pc = "assemble"
    /\ idx_meta.status \in {"ok", "low_index_confidence", "no_index_candidate"}

\* valid / (valid + invalid + degenerate) of a candidate is below 0.50
BelowHalf(cand) ==
    2 * cand.triangles_valid
        < cand.triangles_valid + cand.triangles_invalid
              + cand.triangles_degenerate

\* C16: parse_index_buffer never returns the triangle indices of a candidate
\* whose valid ratio is below 0.50, whatever its count of valid triangles:
\* when the best candidate is such a one, no indices are returned.
C16_LowRatioNeverReturned ==
    IndexReturned =>
        /\ idx_source # << >> =>
               /\ idx_meta.status = "ok"
               /\ idx_meta.best # NoneResult
               /\ ~BelowHalf(idx_meta.best)
        /\ (idx_meta.best # NoneResult /\ BelowHalf(idx_meta.best)) =>
               /\ idx_source = << >>
               /\ idx_meta.status = "low_index_confidence"

\* C16 witness: the best candidate has more valid triangles than the 24 of
\* the file's index list and is turned down for its ratio
C16_Witness ==
    /\ IndexReturned
    /\ idx_meta.status = "low_index_confidence"
    /\ idx_meta.best.triangles_valid > MIN_TRIANGLES
    /\ idx_source = << >>

\* the stream indices of the accepted vertices
Surviving == {orig_indices[k] : k \in 1..Len(orig_indices)}

\* the place of a surviving stream index among the accepted vertices
Compact(a) == CHOOSE c \in 0..(Len(orig_indices) - 1) : orig_indices[c + 1] = a

\* the t-th triple of a flat list
FlatTriple(q, t) == << q[3 * t - 2], q[3 * t - 1], q[3 * t] >>

FlatTriples(q) == [t \in 1..(Len(q) \div 3) |-> FlatTriple(q, t)]

\* the triple has surviving corners whose places are pairwise distinct
Stays(tri) ==
    /\ \A j \in 1..3 : tri[j] \in Surviving
    /\ Cardinality({Compact(tri[j]) : j \in 1..3}) = 3

\* the input triples that stay, each rewritten to the places of its corners
ExpectedTriples ==
    LET stay == SelectSeq(FlatTriples(idx_source), Stays)
    IN  [t \in 1..Len(stay) |-> [j \in 1..3 |-> Compact(stay[t][j])]]

\* C17: every output index of remap_triangles_to_compact is below
\* len(orig_indices); the output is, in order, the input triangles whose
\* three indices are surviving original indices and whose remapped indices
\* are pairwise distinct, each rewritten through the map from original
\* index to compact position; no triangle with a dropped index appears.
C17_RemapExact ==
    stub_pc = "remapped" =>
        /\ \A k \in 1..Len(tri_indices) :
               tri_indices[k] >= 0 /\ tri_indices[k] < Len(orig_indices)
        /\ Len(tri_indices) % 3 = 0
        /\ FlatTriples(tri_indices) = ExpectedTriples

\* C17 witness: of two triangles one had a dropped index and the other was
\* rewritten to other values
C17_Witness ==
    /\ stub_pc = "remapped"
    /\ Len(idx_source) = 6
    /\ Len(tri_indices) = 3
    /\ FlatTriples(tri_indices)[1] \notin
           {FlatTriples(idx_source)[t] : t \in 1..2}
    /\ \E t \in 1..2 : \E j \in 1..3 :
           FlatTriples(idx_source)[t][j] \notin Surviving

\* what parse_index_buffer returns for the file's bytes and hints when the
\* deadline does not elapse
InTime ==
    parse_index_buffer(raw, vertex_span_count, stream_offset, stream_stride,
                       stream_available, count_hint, MAX_TRIS)

\* C18: for fixed bytes and hints parse_index_buffer returns the same
\* status, the same chosen candidate and the same triangle list whenever
\* the wall-clock deadline elapses: what it returns is what it returns
\* when the deadline does not elapse at all.
C18_SameResultWhenever ==
    IndexReturned =>
        \E result \in {InTime} :
            /\ idx_meta.status = result.status
            /\ idx_meta.best = result.best
            /\ idx_source = result.indices

\* a scan the deadline did not cut returns what parse_index_buffer returns
\* in time
InTimeAgrees ==
    (IndexReturned /\ ~timed_out) =>
        \E result \in {InTime} :
            /\ idx_meta.status = result.status
            /\ idx_meta.best = result.best
            /\ idx_source = result.indices
            /\ idx_meta.scan_note = result.scan_note

\* the deadline is found elapsed only by the test at the head of a
\* candidate's evaluation, which ends the scan
DeadlineSeenAtHead ==
    (timed_out' /\ ~timed_out) =>
        /\ stub_pc = "idx_check"
        /\ deadline_elapsed
        /\ stub_pc' = "idx_end"
        /\ best' = best
        /\ best_indices' = best_indices

\* the triple loop of a candidate runs to its end whether the deadline has
\* elapsed or not: the step that leaves it has the candidate's whole record
\* and triangle list
TripleLoopUncut ==
    (stub_pc = "idx_triples" /\ stub_pc' # "idx_triples") =>
        /\ ~timed_out'
        /\ \E found \in {EvaluateCandidate(raw, candidate_offsets[off_k],
                                            INDEX_SIZES[idx_k],
                                            vertex_span_count, MAX_TRIS)} :
               \/ /\ found.tag = "None" \/ ~Better(found.cand, best)
                  /\ best' = best
                  /\ best_indices' = best_indices
               \/ /\ found.tag # "None"
                  /\ Better(found.cand, best)
                  /\ best' = found.cand
                  /\ best_indices' = found.vals

\* after the deadline was found elapsed no candidate is evaluated
NoCandidateAfterTimeout ==
    timed_out =>
        /\ stub_pc \notin {"idx_check", "idx_triples"}
        /\ stub_pc = "idx_end" => deadline_elapsed

\* a cut scan still returns its best candidate when that one has a valid
\* ratio of 0.50 or more, with the note; the note is on no other result
TimeoutStillUsable ==
    /\ stub_pc = "idx_end" /\ timed_out =>
           /\ best' = best
           /\ best_indices' = best_indices
           /\ (best # NoneResult /\ best_indices # << >> /\ ~BelowHalf(best))
                  => /\ idx_source' = best_indices
                     /\ idx_meta'.status = "ok"
                     /\ idx_meta'.best = best
                     /\ idx_meta'.scan_note = "index_scan_deadline_hit"
    /\ stub_pc = "idx_end" /\ ~timed_out => idx_meta'.scan_note = ""

\* C19: in parse_index_buffer the deadline is tested only at the start of a
\* candidate's evaluation, never inside the triple-reading loop; once it is
\* found elapsed no further candidate is evaluated, and a best candidate
\* with valid ratio >= 0.50 is still returned with status ok and the
\* scan_note index_scan_deadline_hit.
C19_DeadlineBetweenCandidates ==
    /\ []NoCandidateAfterTimeout
    /\ [][DeadlineSeenAtHead /\ TripleLoopUncut /\ TimeoutStillUsable]_vars

\* C19 witness: a scan cut by the deadline has returned a triangle list
\* with the note
C19_Witness ==
    /\ IndexReturned
    /\ timed_out
    /\ candidate_checks > 1
    /\ idx_meta.status = "ok"
    /\ idx_meta.scan_note = "index_scan_deadline_hit"
    /\ idx_source # << >>

\* the index value number k (from 0) of the returned candidate, read from
\* the file's bytes; a 32-bit value from 2^31 on is beyond every span
ValueAt(k) ==
    LET at == idx_meta.best.offset + k * idx_meta.best.index_size
    IN  IF idx_meta.best.index_size = 2 THEN read_u16(raw, at)
        ELSE IF raw[at + 4] >= 128 THEN 2147483647
        ELSE read_u32(raw, at)

\* triple t (from 0) of the returned candidate is a triangle: its corners
\* are below the vertex span and pairwise distinct
GoodTriple(t) ==
    /\ \A j \in 0..2 : ValueAt(3 * t + j) < vertex_span_count
    /\ Cardinality({ValueAt(3 * t + j) : j \in 0..2}) = 3

\* the triangles among the first count triples of the returned candidate,
\* in stream order, as a flat list
GoodAmong(count) ==
    LET good == SelectSeq([t \in 1..count |-> t - 1], GoodTriple)
    IN  [k \in 1..(3 * Len(good)) |->
            ValueAt(3 * good[((k - 1) \div 3) + 1] + ((k - 1) % 3))]

\* the whole triples of the file from the returned candidate's offset on
TriplesFrom ==
    (Len(raw) - idx_meta.best.offset) \div (3 * idx_meta.best.index_size)

\* C20: the index list returned by parse_index_buffer is taken from one
\* (offset, index width) candidate in stream order: its length is a
\* multiple of 3, every index is below the vertex span passed in, no
\* triple has two equal indices, and the list is the triangles of a run of
\* the candidate's triples from its offset on, the invalid and degenerate
\* triples of the run left out.
C20_OneCandidateList ==
    (IndexReturned /\ idx_source # << >>) =>
        /\ Len(idx_source) % 3 = 0
        /\ Len(idx_source) = 3 * idx_meta.best.triangles_valid
        /\ \A k \in 1..Len(idx_source) :
               idx_source[k] >= 0 /\ idx_source[k] < vertex_span_count
        /\ \A t \in 1..(Len(idx_source) \div 3) :
               Cardinality({idx_source[3 * t - j] : j \in 0..2}) = 3
        /\ \E count \in 0..TriplesFrom : idx_source = GoodAmong(count)

\* C20 witness: a list was returned from a candidate that also had
\* degenerate triples
C20_Witness ==
    /\ IndexReturned
    /\ idx_source # << >>
    /\ idx_meta.best.triangles_degenerate > 0
    /\ idx_meta.best.index_size = 4

(***************************************************************************)
(* The structured decoder again: index ranges, vertex offsets, buckets.    *)
(***************************************************************************)
\* where the ranges of descriptor g end: past the list of its last LOD
GroupEnd(g) == g.lods[LOD_SLOTS].list_start + g.lods[LOD_SLOTS].list_count

\* within descriptor g every list follows its strip and every strip the
\* list of the LOD before it
LodsContiguous(g) ==
    \A k \in 1..LOD_SLOTS :
        /\ g.lods[k].list_start = g.lods[k].strip_start + g.lods[k].strip_count
        /\ k > 1 => g.lods[k].strip_start =
                        g.lods[k - 1].list_start + g.lods[k - 1].list_count

\* C21: the index ranges parse_nod gives the descriptors are contiguous in
\* the flat index buffer: the first group's LOD0 strip starts at index 0,
\* within a group each LOD's list starts at its strip_start + strip_count
\* and the next LOD's strip at the previous LOD's list_start + list_count,
\* and every later group's LOD0 strip starts where the group before it
\* ended, so the ranges neither overlap nor leave gaps.
C21_RangesContiguous ==
    nod.tag = "nod" =>
        \A k \in 1..Len(nod.mesh_groups) :
            /\ LodsContiguous(nod.mesh_groups[k])
            /\ nod.mesh_groups[k].lods[1].strip_start =
                   IF k = 1 THEN 0 ELSE GroupEnd(nod.mesh_groups[k - 1])

\* C21 witness: two descriptors were parsed, the first with a strip in its
\* LOD0 and two indices in its second LOD, so the second starts past both
C21_Witness ==
    /\ nod.tag = "nod"
    /\ Len(nod.mesh_groups) = 2
    /\ nod.mesh_groups[1].lods[1].strip_count = 4
    /\ nod.mesh_groups[1].lods[2].strip_count = 2
    /\ nod.mesh_groups[2].lods[1].strip_start = 6
    /\ nod.mesh_groups[2].lods[1].list_count = 3

\* the raw indices of the window or triple the current pass has read
RawRead ==
    IF pc = "strip"
    THEN << nod.indices[i - 1], nod.indices[i], nod.indices[i + 1] >>
    ELSE TripleAt(mg, i)

\* the indices appended to all_triangles by the step
Appended == SubSeq(all_triangles', Len(all_triangles) + 1, Len(all_triangles'))

\* a pass that emits a triangle emits the indices it read, each translated
\* by the declared counts of the groups before the current one
EmitsTranslated ==
    Len(all_triangles') > Len(all_triangles) =>
        /\ Len(Appended) = 3
        /\ {Appended[j] : j \in 1..3} =
               {RawRead[j] + GroupOffset(mg) : j \in 1..3}

\* C22: while mesh group k is triangulated every raw index is translated by
\* the sum of the vertex_count fields declared by the descriptors of the
\* groups before k, whatever those groups kept; the first group uses 0.
C22_DeclaredOffset ==
    /\ []((nod.tag = "nod" /\ mg >= 1) => vtx_offset = GroupOffset(mg))
    /\ [][EmitsTranslated]_vars

\* C22 witness: the first group declared 2 vertices and emitted nothing, the
\* vertex groups hold 6, and the second group's list 0, 1, 2 came out as
\* 2, 3, 4
C22_Witness ==
    /\ Returned
    /\ mesh.tag = "mesh"
    /\ Len(nod.mesh_groups) = 2
    /\ nod.mesh_groups[1].vertex_count = 2
    /\ Len(nod.all_vertices[1]) = 3
    /\ TripleAt(2, 0) = << 0, 1, 2 >>
    /\ all_triangles = << 2, 3, 4 >>

\* the triangles group g gives, from the container's bytes: the windows of
\* its strip that neither repeat an index nor reach beyond the vertices,
\* wound by their position, then the triples of its list that do not reach
\* beyond the vertices
GroupTriangles(g) ==
    LET GoodWindow(k) == ~Repeats(WindowAt(g, k)) /\ ~Beyond(g, WindowAt(g, k))
        GoodTriple3(t) == ~Beyond(g, TripleAt(g, t))
        wins == SelectSeq([k \in 1..Cardinality(Windows(g)) |-> k - 1], GoodWindow)
        trs  == SelectSeq([t \in 1..Cardinality(Triples(g)) |-> t - 1], GoodTriple3)
    IN  Flatten([k \in 1..Len(wins) |->
                    Wind(wins[k] % 2, WindowAt(g, wins[k])[1] + GroupOffset(g),
                         WindowAt(g, wins[k])[2] + GroupOffset(g),
                         WindowAt(g, wins[k])[3] + GroupOffset(g))])
        \o Flatten([t \in 1..Len(trs) |->
                       [j \in 1..3 |-> TripleAt(g, trs[t])[j] + GroupOffset(g)]])

\* the triangles of the groups 1..g whose material_id is in mats, in
\* descriptor order
RECURSIVE TrianglesOfGroups(_, _)
TrianglesOfGroups(g, mats) ==
    IF g = 0 THEN << >>
    ELSE TrianglesOfGroups(g - 1, mats)
            \o (IF nod.mesh_groups[g].material_id \in mats
                THEN GroupTriangles(g) ELSE << >>)

\* the material ids of the descriptors
Materials == {nod.mesh_groups[g].material_id : g \in 1..Len(nod.mesh_groups)}

RECURSIVE BucketLengths(_, _)
\* the lengths of the buckets of the materials in S, added up
BucketLengths(buckets, S) ==
    IF S = {} THEN 0
    ELSE LET m == CHOOSE x \in S : TRUE
         IN  Len(buckets[m]) + BucketLengths(buckets, S \ {m})

\* the global list and the buckets when the triangulation is through
BucketsAtReturn ==
    (Returned /\ ~ReturnsEarly(nod)) =>
        /\ all_triangles = TrianglesOfGroups(Len(nod.mesh_groups), Materials)
        /\ DOMAIN group_triangles = Materials
        /\ \A m \in Materials :
               group_triangles[m] = TrianglesOfGroups(Len(nod.mesh_groups), {m})

\* at every moment the buckets together hold what the global list holds
BucketsAddUp ==
    pc \in {"group", "strip", "list"} =>
        BucketLengths(group_triangles, DOMAIN group_triangles) = Len(all_triangles)

\* a triangle appended to the global list is appended to the bucket of the
\* current group's material and to no other
AppendedToBoth ==
    Len(all_triangles') > Len(all_triangles) =>
        /\ group_triangles'[MatId] = group_triangles[MatId] \o Appended
        /\ \A m \in DOMAIN group_triangles \ {MatId} :
               group_triangles'[m] = group_triangles[m]

\* groups are taken one after the other, the strip of a group before its
\* list
InDescriptorOrder ==
    /\ (pc \in {"group", "strip", "list"} /\ pc' \in {"group", "strip", "list"})
           => mg' = IF pc = "list" /\ pc' = "group" THEN mg + 1 ELSE mg
    /\ pc = "group" => pc' \in {"group", "strip", "list", "main"}
    /\ pc = "strip" => pc' \in {"strip", "list"}
    /\ pc = "list" => pc' \in {"list", "group"}

\* C23: mesh groups are processed in descriptor order, within a group the
\* accepted strip triangles come before the accepted list triangles, and
\* every accepted triangle goes both to the global list and to the bucket
\* of the group's material_id: each bucket is what the groups of its
\* material contributed to the global list, in the same order, and the
\* bucket lengths add up to the global list's length.
C23_BucketsFollowGlobalList ==
    /\ []BucketsAtReturn
    /\ []BucketsAddUp
    /\ [][AppendedToBoth /\ InDescriptorOrder]_vars

\* C23 witness: two groups of different materials, each with a strip
\* triangle and then a list triangle, the second material's id the smaller
C23_Witness ==
    /\ Returned
    /\ mesh.tag = "mesh"
    /\ all_triangles = << 0, 1, 2, 2, 1, 0, 3, 5, 4, 4, 3, 5 >>
    /\ nod.mesh_groups[1].material_id = 1
    /\ group_triangles[1] = << 0, 1, 2, 2, 1, 0 >>
    /\ group_triangles[0] = << 3, 5, 4, 4, 3, 5 >>

(***************************************************************************)
(* The heuristic scans again: early stop, work per candidate, order.       *)
(***************************************************************************)
\* candidate b has valid ratio >= 0.92 and at least 240 valid triangles, and
\* checks candidate checks have been made, 96 or more
Confident(b, checks) ==
    /\ b.tag # "None"
    /\ b.valid_ratio >= 92000
    /\ b.triangles_valid >= 240
    /\ checks >= 96

\* the candidate loops are left by the deadline, after the last candidate,
\* or with a confident best
StopsOnlyWhenConfident ==
    (stub_pc \in {"idx_check", "idx_triples"} /\ stub_pc' = "idx_end") =>
        \/ timed_out'
        \/ off_k = Len(candidate_offsets) /\ idx_k = Len(INDEX_SIZES)
        \/ Confident(best', candidate_checks')

\* a candidate's evaluation that ends with a confident best ends the loops
StopsWhenConfident ==
    (stub_pc = "idx_triples" /\ stub_pc' # "idx_triples"
        /\ Confident(best', candidate_checks')) => stub_pc' = "idx_end"

\* C24: parse_index_buffer leaves its candidate loops early, other than by
\* the deadline or after the last candidate, only when at least 96
\* candidate checks have been made and the best candidate has valid ratio
\* >= 0.92 and at least 240 valid triangles; once that holds after a
\* candidate was scored no further candidate is taken up.
C24_EarlyStop ==
    /\ [](stub_pc = "idx_check" => ~Confident(best, candidate_checks))
    /\ [][StopsOnlyWhenConfident /\ StopsWhenConfident]_vars

\* C24 witness: the loops were left after check 101, the first candidate
\* of an offset, with candidates still to come
C24_Witness ==
    /\ stub_pc = "idx_end"
    /\ ~timed_out
    /\ Confident(best, candidate_checks)
    /\ candidate_checks > 96
    /\ idx_k = 1
    /\ off_k < Len(candidate_offsets)

\* the triples a scored candidate of the index scan was read for
TriplesRead ==
    best.triangles_valid + best.triangles_invalid + best.triangles_degenerate

\* the index scan reads at most 6000 triples for a candidate, 3000 when the
\* vertex span is 2048 or more
IndexWorkBounded ==
    (stub_pc = "evaluated" /\ best.tag = "cand") =>
        TriplesRead <= IF vertex_span_count >= 2048 THEN 3000 ELSE 6000

\* C25 as stated: the vertex scan samples min(available, 256) records for
\* a candidate, or the count hint when a hint smaller than that is
\* present, and the index scan reads at most the scan cap of triples for a
\* candidate.
C25_WorkBounded ==
    /\ (stub_pc = "scored" /\ best.tag = "cand") =>
           best.eval_n = IF count_hint # NoHint
                              /\ count_hint < Min(best.available, 256)
                          THEN count_hint
                          ELSE Min(best.available, 256)
    /\ IndexWorkBounded

\* C25 amended: the vertex scan samples min(available, 256) records for a
\* candidate, or the larger of the count hint and 24 when a hint is present
\* and that is smaller, and the index scan reads at most the scan cap of
\* triples (6000, or 3000 when the vertex span is >= 2048) for a candidate.
C25_WorkBoundedFloor ==
    /\ (stub_pc = "scored" /\ best.tag = "cand") =>
           best.eval_n = IF count_hint # NoHint
                          THEN Min(Min(best.available, 256), Max(24, count_hint))
                          ELSE Min(best.available, 256)
    /\ IndexWorkBounded

\* C25 witness: a candidate of a span of 2048 with more than 6000 triples
\* ahead of it was read for 3000 triples
C25_Witness ==
    /\ stub_pc = "evaluated"
    /\ best.tag = "cand"
    /\ vertex_span_count = 2048
    /\ (Len(raw) - best.offset) \div (3 * best.index_size) > 6000
    /\ TriplesRead = 3000

\* C26: when parse_vertex_cloud returns status ok, positions and
\* orig_indices have the same length, orig_indices is strictly increasing
\* with every entry below the chosen candidate's available record count,
\* positions[k] is the record read at stream index orig_indices[k], and the
\* number of accepted vertices is at most max_points.
C26_AcceptedInStreamOrder ==
    (VertexReturned /\ parser_meta.status = "ok") =>
        /\ Len(positions) = Len(orig_indices)
        /\ \A j \in 1..Len(orig_indices) :
               /\ orig_indices[j] >= 0
               /\ orig_indices[j] < parser_meta.best.available
               /\ j > 1 => orig_indices[j - 1] < orig_indices[j]
               /\ positions[j] =
                      read_3f(raw, parser_meta.best.offset
                                       + orig_indices[j] * parser_meta.best.stride)
        /\ parser_meta.accepted_vertices = Len(positions)
        /\ Len(positions) <= Max(8, max_points_per_mesh)

\* C26 witness: with --max-points-per-mesh 10 ten of twelve records were
\* accepted, the record at stream index 1 being left out
C26_Witness ==
    /\ VertexReturned
    /\ parser_meta.status = "ok"
    /\ max_points_per_mesh = 10
    /\ parser_meta.best.available = 12
    /\ Len(positions) = 10
    /\ orig_indices[2] = 2

\* the offsets in the order they are tried: the eight common ones, then the
\* sweep from 0x40 in steps of 0x10 without those already listed
OrderedOffsets ==
    LET sweep == Range(64, Min(Len(raw) - 12, 1024), 16)
        common == << 128, 144, 160, 176, 192, 224, 256, 288 >>
    IN  common \o SelectSeq(sweep,
                            LAMBDA o : \A j \in 1..Len(common) : common[j] # o)

\* the place of an offset in that order
OffsetPlace(o) == CHOOSE k \in 1..Len(OrderedOffsets) : OrderedOffsets[k] = o

\* candidate c is tried before candidate d
TriedBefore(c, d) ==
    \/ OffsetPlace(c.offset) < OffsetPlace(d.offset)
    \/ c.offset = d.offset /\ c.stride < d.stride

\* C27: the vertex-stream candidates are tried in a fixed order (offsets
\* 0x80, 0x90, 0xA0, 0xB0, 0xC0, 0xE0, 0x100, 0x120, then the sweep from
\* 0x40, strides ascending within an offset) and a later candidate replaces
\* the best only with a strictly greater score: the best reported is a
\* candidate of the highest score, and the first tried of those.
C27_FirstOfEqualKept ==
    (VertexReturned /\ parser_meta.best.tag = "cand") =>
        /\ parser_meta.best =
               Candidate(raw, bbox, count_hint, parser_meta.best.offset,
                         parser_meta.best.stride)
        /\ \A k \in 1..Len(OrderedOffsets) : \A s \in 1..Len(STRIDES) :
               \A c \in {Candidate(raw, bbox, count_hint, OrderedOffsets[k],
                                    STRIDES[s])} :
                   c.tag = "cand" =>
                       \/ c.score < parser_meta.best.score
                       \/ /\ c.score = parser_meta.best.score
                          /\ ~TriedBefore(c, parser_meta.best)

\* C27 witness: the best is at 0x80 and a candidate at 0x40, tried after
\* it, has the same score
C27_Witness ==
    /\ VertexReturned
    /\ parser_meta.best.tag = "cand"
    /\ parser_meta.best.offset = 128
    /\ Candidate(raw, bbox, count_hint, 64, 16).score = parser_meta.best.score

\* C28: for every buffer of 256 bytes or more at least one (offset, stride)
\* candidate is scored and kept as best, so parse_vertex_cloud never returns
\* status no_candidate for it; the failure statuses are too_small (exactly
\* for the buffers below 256 bytes), low_confidence and
\* insufficient_vertices.
C28_AlwaysACandidate ==
    VertexReturned =>
        /\ parser_meta.status \in
               {"ok", "too_small", "low_confidence", "insufficient_vertices"}
        /\ parser_meta.status = "too_small" <=> Len(raw) < 256
        /\ Len(raw) >= 256 => parser_meta.best.tag = "cand"
        /\ parser_meta.status # "ok" <=> positions = << >>

\* C28 witness: a buffer of exactly 256 bytes whose floats are not finite
\* still has a best candidate, of score 0, and fails with low_confidence
C28_Witness ==
    /\ VertexReturned
    /\ Len(raw) = 256
    /\ parser_meta.status = "low_confidence"
    /\ parser_meta.best.tag = "cand"
    /\ parser_meta.best.score = 0


\* the candidate the triple loop is at, scored
Scored ==
    EvaluateCandidate(raw, candidate_offsets[off_k], INDEX_SIZES[idx_k],
                      vertex_span_count, MAX_TRIS)

\* the best candidate, once there is one, has at least 24 valid triangles
BestHasEnough ==
    (stub_pc \in {"idx_check", "idx_triples", "idx_end", "assemble"}
        /\ best.tag # "None") => best.triangles_valid >= MIN_TRIANGLES

\* a scored candidate takes the place of the best one exactly when it has at
\* least 24 valid triangles and there is no best one yet or its score is
\* higher; nothing else changes the best candidate
HigherScoreReplaces ==
    IF stub_pc = "idx_triples" /\ stub_pc' # "idx_triples"
    THEN \A found \in {Scored} :
             IF found.tag # "None"
                    /\ (best.tag = "None" \/ found.cand.score > best.score)
             THEN best' = found.cand /\ best_indices' = found.vals
             ELSE best' = best /\ best_indices' = best_indices
    ELSE stub_pc \in {"idx_check", "idx_triples", "idx_end"} =>
             best' = best /\ best_indices' = best_indices

\* a triangle list is returned exactly when there is a best candidate and
\* its ratio is at least 0.50, and it is that candidate's list
ReturnsBestOrNone ==
    IndexReturned =>
        /\ idx_source # << >>
               <=> (best.tag # "None" /\ best.valid_ratio >= MIN_RATIO)
        /\ idx_source # << >> =>
               idx_source = best_indices /\ idx_meta.best = best
        /\ (best.tag # "None" /\ best.valid_ratio < MIN_RATIO) =>
               idx_meta.status = "low_index_confidence"

\* C29: parse_index_buffer keeps as best only candidates with at least 24
\* valid triangles, replaces the best one only by a candidate of a strictly
\* higher score (of equal scores the first stays), and returns a triangle
\* list exactly when there is a best candidate whose valid ratio is at
\* least 0.50: the ratios of the other candidates play no part.
C29_TopScorerDecides ==
    /\ [](BestHasEnough /\ ReturnsBestOrNone)
    /\ [][HigherScoreReplaces]_vars

\* C29 witness: every candidate was scored, the best one has less than
\* half its triples valid and nothing is returned, while a candidate of a
\* lower score has all of its triples valid
C29_Witness ==
    /\ IndexReturned
    /\ ~timed_out
    /\ candidate_checks = Len(candidate_offsets) * Len(INDEX_SIZES)
    /\ idx_source = << >>
    /\ idx_meta.status = "low_index_confidence"
    /\ best.valid_ratio < MIN_RATIO
    /\ best.triangles_valid > 4 * MIN_TRIANGLES
    /\ \E k \in 1..Len(candidate_offsets) :
           \E other \in {EvaluateCandidate(raw, candidate_offsets[k], 2,
                                           vertex_span_count, MAX_TRIS)} :
               /\ other.tag # "None"
               /\ other.cand.valid_ratio = 100000
               /\ other.cand.score < best.score


(***************************************************************************)
(* nod_to_gltf_converter.py: the second structured converter.  Its         *)
(* parse_nod and extract_mesh are functions of their argument, and are     *)
(* written here as operators: the loops become recursions over the place   *)
(* in the index buffer (pos, k), the mesh group (g) and the locals.        *)
(***************************************************************************)
\* lines 83-252: parse_nod of the converter, which repeats lines 215-384 of
\* nod_to_gltf.py statement by statement
converter_parse_nod(bytes) == parse_nod(bytes)

\* lines 282-307: one vertex, sanitized, its normal of unit length (dir in
\* units of 1/64 and the square of its length), its uv clamped, in units
\* of 1/64; there is no flip here
ConverterVertex(vert) ==
    LET pos == IF \A j \in 1..3 : isfinite(vert.pos[j]) THEN vert.pos
               ELSE << ZeroFloat, ZeroFloat, ZeroFloat >>
        fin == IF \A j \in 1..3 : isfinite(vert.normal[j]) THEN vert.normal
               ELSE << ZeroFloat, OneFloat, ZeroFloat >>
        short == /\ \A j \in 1..3 : MagBits(fin[j]) < 981668463
                 /\ Scaled(fin[1], 24) * Scaled(fin[1], 24)
                        + Scaled(fin[2], 24) * Scaled(fin[2], 24)
                        + Scaled(fin[3], 24) * Scaled(fin[3], 24) < 281474977
        nrm == IF short THEN << 0, V64(OneFloat), 0 >>
               ELSE << V64(fin[1]), V64(fin[2]), V64(fin[3]) >>
        uv  == IF isfinite(vert.uv[1]) /\ isfinite(vert.uv[2])
               THEN << V64(vert.uv[1]), V64(vert.uv[2]) >> ELSE << 0, 0 >>
        ten == 10 * V64(OneFloat)
    IN  [pos    |-> pos,
         normal |-> [dir  |-> nrm,
                     len2 |-> nrm[1] * nrm[1] + nrm[2] * nrm[2]
                                  + nrm[3] * nrm[3]],
         uv     |-> << Max(0 - ten, Min(ten, uv[1])),
                       Max(0 - ten, Min(ten, uv[2])) >>]

\* lines 279-308: the vertex groups flattened, in group order
ConverterFlat(all_vertices) ==
    Flatten([g \in 1..Len(all_vertices) |->
                [k \in 1..Len(all_vertices[g]) |->
                    ConverterVertex(all_vertices[g][k])]])

\* both windings as they were read
WindAsRead(w, a, b, c) == << a, b, c >>

\* lines 361-364: the odd windows swap their last two vertices
ConverterWind(w, a, b, c) == IF w = 0 THEN << a, b, c >> ELSE << a, c, b >>

\* the locals of the strip loop before its first pass (lines 322-325)
FreshWindow ==
    [v1 |-> NoIndex, v2 |-> NoIndex, v3 |-> NoIndex, n |-> 0, tris |-> << >>]

RECURSIVE ConverterStrip(_, _, _, _, _, _)
\* lines 327-366: the strip loop from index pos on; count is total
ConverterStrip(indices, lod0, offset, count, pos, st) ==
    IF pos >= lod0.strip_start + lod0.strip_count \/ pos >= Len(indices)
    THEN st.tris
    ELSE IF st.v1 = NoIndex
    THEN ConverterStrip(indices, lod0, offset, count, pos + 1,
                        [st EXCEPT !.v1 = indices[pos + 1]])
    ELSE IF st.v2 = NoIndex
    THEN ConverterStrip(indices, lod0, offset, count, pos + 1,
                        [st EXCEPT !.v2 = indices[pos + 1]])
    ELSE LET w1 == IF st.v3 = NoIndex THEN st.v1 ELSE st.v2
             w2 == IF st.v3 = NoIndex THEN st.v2 ELSE st.v3
             w3 == indices[pos + 1]
             skipped == \/ w1 = w2 \/ w2 = w3 \/ w1 = w3
                        \/ w1 + offset >= count
                        \/ w2 + offset >= count
                        \/ w3 + offset >= count
         IN  ConverterStrip(indices, lod0, offset, count, pos + 1,
                 [v1 |-> w1, v2 |-> w2, v3 |-> w3, n |-> (st.n + 1) % 2,
                  tris |-> IF skipped THEN st.tris
                           ELSE st.tris \o ConverterWind(st.n, w1 + offset,
                                                         w2 + offset,
                                                         w3 + offset)])

RECURSIVE ConverterList(_, _, _, _, _, _)
\* lines 369-383: the list loop from triple k on
ConverterList(indices, lod0, offset, count, k, acc) ==
    IF \/ lod0.list_count = 0
       \/ k >= lod0.list_count \div 3
       \/ lod0.list_start + k * 3 + 2 >= Len(indices)
    THEN acc
    ELSE LET base == lod0.list_start + k * 3
             i0 == indices[base + 1] + offset
             i1 == indices[base + 2] + offset
             i2 == indices[base + 3] + offset
         IN  ConverterList(indices, lod0, offset, count, k + 1,
                           IF i0 >= count \/ i1 >= count \/ i2 >= count
                           THEN acc ELSE acc \o << i0, i1, i2 >>)

RECURSIVE ConverterGroups(_, _, _, _, _)
\* lines 317-385: for mg in mesh_groups, from group g on
ConverterGroups(nd, count, g, offset, acc) ==
    IF g > Len(nd.mesh_groups) THEN acc
    ELSE LET lod0 == nd.mesh_groups[g].lods[1]
             strips == IF lod0.strip_count > 0
                       THEN ConverterStrip(nd.indices, lod0, offset, count,
                                           lod0.strip_start, FreshWindow)
                       ELSE << >>
             lists == ConverterList(nd.indices, lod0, offset, count, 0,
                                    << >>)
         IN  ConverterGroups(nd, count, g + 1,
                             offset + nd.mesh_groups[g].vertex_count,
                             acc \o strips \o lists)

\* lines 257-399: extract_mesh of the converter
converter_extract_mesh(nd) ==
    IF nd.all_vertices = << >> \/ nd.indices = << >> \/ nd.mesh_groups = << >>
    THEN NoneResult
    ELSE LET flat == ConverterFlat(nd.all_vertices)
         IN  IF Len(flat) < 3 THEN NoneResult
             ELSE LET tris == ConverterGroups(nd, Len(flat), 1, 0, << >>)
                  IN  IF Len(tris) < 3 THEN NoneResult
                      ELSE [tag            |-> "mesh",
                            positions      |-> [k \in 1..Len(flat) |->
                                                   flat[k].pos],
                            normals        |-> [k \in 1..Len(flat) |->
                                                   flat[k].normal],
                            uvs            |-> [k \in 1..Len(flat) |->
                                                   flat[k].uv],
                            indices        |-> tris,
                            vertex_count   |-> Len(flat),
                            triangle_count |-> Len(tris) \div 3,
                            shaders        |-> nd.shaders,
                            mesh_groups    |-> Len(nd.mesh_groups)]

\* the call of convert_nod_file on the bytes in data is over: parse_nod
\* failed, or extract_mesh has returned
CallOver == pc = "crashed" \/ (pc = "main" /\ nod_files = << >>)

\* the fields the two meshes have in common but the uvs
SameFields == {"tag", "positions", "normals", "indices", "vertex_count",
               "triangle_count", "shaders", "mesh_groups"}

\* the two meshes differ in the second uv component, which is 1.0 - v in
\* the first, and in the buckets of the first
DifferByFlipAndBuckets(first, second) ==
    /\ DOMAIN first = DOMAIN second \cup {"group_triangles"}
    /\ "group_triangles" \notin DOMAIN second
    /\ \A f \in SameFields : first[f] = second[f]
    /\ Len(first.uvs) = Len(second.uvs)
    /\ \A k \in 1..Len(first.uvs) :
           /\ first.uvs[k][1] = second.uvs[k][1]
           /\ first.uvs[k][2] = V64(OneFloat) - second.uvs[k][2]

\* C30: on the same bytes parse_nod and extract_mesh of nod_to_gltf.py and
\* of nod_to_gltf_converter.py fail together (None or an exception of
\* parse_nod, None of extract_mesh), parse to the same record, and return
\* meshes with the same positions, normals, triangle list, vertex_count and
\* triangle_count, which differ only in the flipped second uv component and
\* in the per-material buckets of nod_to_gltf.py.
C30_ConvertersAgree ==
    CallOver =>
        \A other \in {converter_parse_nod(data)} :
            /\ nod = other
            /\ nod.tag = "nod" =>
                   \A second \in {converter_extract_mesh(other)} :
                       /\ mesh.tag = second.tag
                       /\ mesh.tag = "mesh" =>
                              DifferByFlipAndBuckets(mesh, second)

\* C30 witness: both return a mesh of two materials with strip and list
\* triangles, the same triangle list, and uvs that differ
C30_Witness ==
    /\ CallOver
    /\ mesh.tag = "mesh"
    /\ Cardinality(DOMAIN mesh.group_triangles) = 2
    /\ Len(mesh.indices) = 12
    /\ \E second \in {converter_extract_mesh(converter_parse_nod(data))} :
           /\ second.tag = "mesh"
           /\ second.indices = mesh.indices
           /\ second.normals = mesh.normals
           /\ second.uvs # mesh.uvs

=========================================================================
